---------------------------- MODULE Spec2Model ----------------------------
(***************************************************************************)
(* A model of gentl-node (src/src/index.ts): the GentlNode pipeline that   *)
(* renders HTML templates with JSON data into files under an output root.  *)
(*                                                                         *)
(* Strings are TLA+ strings handled character by character (SubSeq, \o).   *)
(* Paths are POSIX paths; the process's working directory is Cwd.          *)
(* JSON values are records [t, s, n, o] (tag, text, number, properties).   *)
(* The file system is a fixture (ReadFileText, ReadDir) plus the files and *)
(* directories the pipeline creates; fs.mkdir and fs.writeFile are atomic  *)
(* and may fail.  The engine (gentlProcess) is outside the source: it is   *)
(* taken to ask includeIo for the include sites of its input in order, to  *)
(* let a rejection of includeIo propagate, and to be free to throw.        *)
(***************************************************************************)
EXTENDS Integers, Sequences, FiniteSets, TLC

(***************************************************************************)
(* Bounds of the model.                                                    *)
(***************************************************************************)
\* Generation calls (generateFile / generateFiles) started in one behaviour.
MaxCalls == 2
\* Base-data operations (setBaseData / clearBaseData) in one behaviour.
MaxBaseOps == 2
\* Engine invocations one call can have in progress, one inside the other.
MaxDepth == 4

(***************************************************************************)
(* Strings.                                                                *)
(***************************************************************************)
CharAt(s, i) == SubSeq(s, i, i)

\* String.prototype.startsWith
StartsWith(s, p) == Len(s) >= Len(p) /\ SubSeq(s, 1, Len(p)) = p

EndsWith(s, p) == Len(s) >= Len(p) /\ SubSeq(s, Len(s) - Len(p) + 1, Len(s)) = p

\* s.slice(n): s without its first n characters.
DropChars(s, n) == SubSeq(s, n + 1, Len(s))

\* Whether pat occurs in s at position i (1-based).
MatchesAt(s, pat, i) ==
  i + Len(pat) - 1 <= Len(s) /\ SubSeq(s, i, i + Len(pat) - 1) = pat

RECURSIVE SplitFrom(_, _, _, _)
SplitFrom(s, sep, i, cur) ==
  IF i > Len(s) THEN <<cur>>
  ELSE IF CharAt(s, i) = sep THEN <<cur>> \o SplitFrom(s, sep, i + 1, "")
  ELSE SplitFrom(s, sep, i + 1, cur \o CharAt(s, i))

\* String.prototype.split with a one-character separator: "".split(".") is [""].
Split(s, sep) == SplitFrom(s, sep, 1, "")

RECURSIVE Join(_, _)
\* Array.prototype.join
Join(segs, sep) ==
  IF segs = <<>> THEN ""
  ELSE IF Len(segs) = 1 THEN segs[1]
  ELSE segs[1] \o sep \o Join(Tail(segs), sep)

\* The position of the last "." of s, 0 when there is none.
LastDot(s) ==
  LET dots == {i \in 1..Len(s) : CharAt(s, i) = "."}
  IN  IF dots = {} THEN 0 ELSE CHOOSE i \in dots : \A j \in dots : j <= i

LowerChar(c) ==
  CASE c = "J" -> "j" [] c = "S" -> "s" [] c = "O" -> "o" [] c = "N" -> "n"
    [] c = "A" -> "a" [] c = "B" -> "b" [] c = "C" -> "c" [] c = "T" -> "t"
    [] c = "X" -> "x" [] OTHER -> c

RECURSIVE ToLowerCase(_)
\* String.prototype.toLowerCase on the alphabet of the model's file names.
ToLowerCase(s) ==
  IF s = "" THEN "" ELSE LowerChar(CharAt(s, 1)) \o ToLowerCase(DropChars(s, 1))

RECURSIVE DigitsOf(_)
DigitsOf(n) ==
  LET d == CASE n % 10 = 0 -> "0" [] n % 10 = 1 -> "1" [] n % 10 = 2 -> "2"
             [] n % 10 = 3 -> "3" [] n % 10 = 4 -> "4" [] n % 10 = 5 -> "5"
             [] n % 10 = 6 -> "6" [] n % 10 = 7 -> "7" [] n % 10 = 8 -> "8"
             [] OTHER -> "9"
  IN  IF n < 10 THEN d ELSE DigitsOf(n \div 10) \o d

\* Number.prototype.toString (base 10) on integers.
NumberToString(n) == IF n < 0 THEN "-" \o DigitsOf(0 - n) ELSE DigitsOf(n)

(***************************************************************************)
(* Node's path module, POSIX flavour.                                      *)
(***************************************************************************)
\* process.cwd()
Cwd == "/w"

\* path.isAbsolute
PathIsAbsolute(p) == StartsWith(p, "/")

RECURSIVE NormalizeSegs(_, _, _)
\* normalizeString: drops "" and ".", lets ".." remove the segment before it,
\* and keeps a leading ".." only when allowAboveRoot.
NormalizeSegs(segs, acc, allowAboveRoot) ==
  IF segs = <<>> THEN acc
  ELSE LET s    == Head(segs)
           rest == Tail(segs)
       IN  IF s = "" \/ s = "." THEN NormalizeSegs(rest, acc, allowAboveRoot)
           ELSE IF s = ".."
             THEN IF acc # <<>> /\ acc[Len(acc)] # ".."
                    THEN NormalizeSegs(rest, SubSeq(acc, 1, Len(acc) - 1), allowAboveRoot)
                  ELSE IF allowAboveRoot
                    THEN NormalizeSegs(rest, Append(acc, ".."), allowAboveRoot)
                  ELSE NormalizeSegs(rest, acc, allowAboveRoot)
           ELSE NormalizeSegs(rest, Append(acc, s), allowAboveRoot)

\* The segments of an absolute normalized path ("/" has none).
SegsOf(abs) == NormalizeSegs(Split(abs, "/"), <<>>, FALSE)

\* path.resolve(base, p) for an absolute base.
PathResolve(base, p) ==
  LET full == IF PathIsAbsolute(p) THEN p
              ELSE IF p = "" THEN base
              ELSE base \o "/" \o p
  IN  "/" \o Join(SegsOf(full), "/")

RECURSIVE CommonPrefixLen(_, _)
CommonPrefixLen(a, b) ==
  IF a = <<>> \/ b = <<>> THEN 0
  ELSE IF Head(a) # Head(b) THEN 0
  ELSE 1 + CommonPrefixLen(Tail(a), Tail(b))

\* path.relative(from, to) for absolute paths.
PathRelative(from, to) ==
  LET fs == SegsOf(from)
      ts == SegsOf(to)
      n  == CommonPrefixLen(fs, ts)
      up == [i \in 1..(Len(fs) - n) |-> ".."]
  IN  Join(up \o SubSeq(ts, n + 1, Len(ts)), "/")

\* path.normalize
PathNormalize(p) ==
  LET abs   == PathIsAbsolute(p)
      trail == EndsWith(p, "/")
      body  == Join(NormalizeSegs(Split(p, "/"), <<>>, ~abs), "/")
  IN  IF p = "" THEN "."
      ELSE IF body = "" THEN (IF abs THEN "/" ELSE IF trail THEN "./" ELSE ".")
      ELSE (IF abs THEN "/" ELSE "") \o body \o (IF trail THEN "/" ELSE "")

\* path.join(a, b)
PathJoin(a, b) ==
  IF a = "" /\ b = "" THEN "."
  ELSE IF b = "" THEN PathNormalize(a)
  ELSE IF a = "" THEN PathNormalize(b)
  ELSE PathNormalize(a \o "/" \o b)

\* path.dirname of an absolute path.
PathDirname(p) ==
  LET segs == SegsOf(p)
  IN  IF Len(segs) <= 1 THEN "/"
      ELSE "/" \o Join(SubSeq(segs, 1, Len(segs) - 1), "/")

\* path.extname of a directory entry name (a name without separators).
PathExtname(name) ==
  LET d == LastDot(name)
  IN  IF d = 0 \/ d = 1 \/ name = ".." THEN "" ELSE SubSeq(name, d, Len(name))

\* path.parse(name).name of a directory entry name.
PathStem(name) == SubSeq(name, 1, Len(name) - Len(PathExtname(name)))


(***************************************************************************)
(* JSON values and JavaScript's view of them.                              *)
(***************************************************************************)
\* Every value has the same fields, so that any two values can be compared:
\* t is the tag, s the text of a string, n the number (1/0 for a boolean),
\* o the properties of an object.
Str(s)    == [t |-> "str", s |-> s, n |-> 0, o |-> <<>>]
Num(n)    == [t |-> "num", s |-> "", n |-> n, o |-> <<>>]
Bool(b)   == [t |-> "bool", s |-> "", n |-> IF b THEN 1 ELSE 0, o |-> <<>>]
Obj(f)    == [t |-> "obj", s |-> "", n |-> 0, o |-> f]
Arr(q)    == [t |-> "arr", s |-> "", n |-> 0, o |-> q]
Null      == [t |-> "null", s |-> "", n |-> 0, o |-> <<>>]
Undefined == [t |-> "undef", s |-> "", n |-> 0, o |-> <<>>]
\* A built-in function or object inherited from a prototype.
Builtin(n) == [t |-> "builtin", s |-> n, n |-> 0, o |-> <<>>]

\* The record with no keys.
EmptyRec == <<>>
EmptyObj == Obj(EmptyRec)

\* Property names every plain object inherits from Object.prototype.
ProtoKeys == {"constructor", "toString", "__proto__"}

\* The text of the files the model reads, as JSON.parse sees it: the parsed
\* value, or Undefined for text JSON.parse throws on.
JsonParse(text) ==
  CASE text = "{\"title\":\"Hi\",\"id\":\"x7\"}" ->
         Obj([title |-> Str("Hi"), id |-> Str("x7")])
    [] text = "{\"title\":\"Yo\",\"meta\":{\"id\":\"m1\",\"n\":0}}" ->
         Obj([title |-> Str("Yo"), meta |-> Obj([id |-> Str("m1"), n |-> Num(0)])])
    [] text = "{\"id\":\"../up\"}" -> Obj([id |-> Str("../up")])
    [] text = "{\"title\":\"Bye\"}" -> Obj([title |-> Str("Bye")])
    [] text = "{\"site\":\"S\",\"meta\":{\"v\":1}}" ->
         Obj([site |-> Str("S"), meta |-> Obj([v |-> Num(1)])])
    [] text = "null" -> Null
    [] text = "{}" -> EmptyObj
    [] OTHER -> Undefined

JsonParseThrows(text) == JsonParse(text) = Undefined

\* A reference to the object at an address of the heap.  The heap is the
\* sequence of the objects created so far, each a map from property names to
\* cells; a cell is a reference or a value that is not an object.  (No array
\* is stored: the base data files hold none.)
Ref(a) == [t |-> "ref", s |-> "", n |-> a, o |-> <<>>]

\* Creating the objects of a value in the heap, as JSON.parse or an object
\* literal does: the heap afterwards and the cell that denotes the value.
RECURSIVE Store(_, _)
RECURSIVE StoreProps(_, _, _)
StoreProps(h, f, ks) ==
  IF ks = {} THEN [heap |-> h, props |-> EmptyRec]
  ELSE LET k    == CHOOSE x \in ks : TRUE
           rest == StoreProps(h, f, ks \ {k})
           one  == Store(rest.heap, f[k])
       IN  [heap |-> one.heap, props |-> (k :> one.cell) @@ rest.props]

Store(h, v) ==
  IF v.t = "obj"
    THEN LET sp == StoreProps(h, v.o, DOMAIN v.o)
         IN  [heap |-> Append(sp.heap, sp.props), cell |-> Ref(Len(sp.heap) + 1)]
    ELSE [heap |-> h, cell |-> v]

\* The value a cell denotes in a heap.
RECURSIVE Materialize(_, _)
Materialize(h, cell) ==
  IF cell.t = "ref"
    THEN Obj([k \in DOMAIN h[cell.n] |-> Materialize(h, h[cell.n][k])])
    ELSE cell

\* The own enumerable properties an object spread {...x} copies.
Spread(x) ==
  CASE x.t = "obj" -> x.o
    [] x.t = "str" -> [i \in {NumberToString(k - 1) : k \in 1..Len(x.s)} |->
                         Str(CharAt(x.s, (CHOOSE k \in 1..Len(x.s) : NumberToString(k - 1) = i)))]
    [] x.t = "arr" -> [i \in {NumberToString(k - 1) : k \in 1..Len(x.o)} |->
                         x.o[CHOOSE k \in 1..Len(x.o) : NumberToString(k - 1) = i]]
    [] OTHER -> EmptyRec

\* A merge that descends into objects present under the same key on both sides.
RECURSIVE DeepMerge(_, _)
DeepMerge(a, b) ==
  [k \in DOMAIN a \cup DOMAIN b |->
     IF k \notin DOMAIN b THEN a[k]
     ELSE IF k \notin DOMAIN a THEN b[k]
     ELSE IF a[k].t = "obj" /\ b[k].t = "obj" THEN Obj(DeepMerge(a[k].o, b[k].o))
     ELSE b[k]]

mergeDataDeep(fileData, baseData) == Obj(DeepMerge(Spread(fileData), Spread(baseData)))

\* mergeData: {...fileData, ...baseData}
mergeData(fileData, baseData) ==
  LET a == Spread(fileData)
      b == Spread(baseData)
  IN  Obj([k \in DOMAIN a \cup DOMAIN b |-> IF k \in DOMAIN b THEN b[k] ELSE a[k]])

\* JavaScript truthiness.
Truthy(x) ==
  CASE x.t = "undef" -> FALSE
    [] x.t = "null"  -> FALSE
    [] x.t = "str"   -> x.s # ""
    [] x.t = "num"   -> x.n # 0
    [] x.t = "bool"  -> x.n = 1
    [] OTHER -> TRUE

\* x[key] for a truthy x.
GetProp(x, key) ==
  CASE x.t = "obj" ->
         IF key \in DOMAIN x.o THEN x.o[key]
         ELSE IF key \in ProtoKeys THEN Builtin(key) ELSE Undefined
    [] x.t = "str" ->
         IF key = "length" THEN Num(Len(x.s))
         ELSE IF key \in DOMAIN Spread(x) THEN Spread(x)[key]
         ELSE IF key \in ProtoKeys THEN Builtin(key) ELSE Undefined
    [] x.t = "arr" ->
         IF key = "length" THEN Num(Len(x.o))
         ELSE IF key \in DOMAIN Spread(x) THEN Spread(x)[key]
         ELSE IF key \in ProtoKeys THEN Builtin(key) ELSE Undefined
    [] OTHER -> IF key \in ProtoKeys THEN Builtin(key) ELSE Undefined

RECURSIVE ReduceProps(_, _)
ReduceProps(current, keys) ==
  IF keys = <<>> THEN current
  ELSE ReduceProps(
         IF Truthy(current) /\ GetProp(current, Head(keys)) # Undefined
           THEN GetProp(current, Head(keys)) ELSE Undefined,
         Tail(keys))

\* getNestedProperty: path.split('.').reduce(...)
getNestedProperty(obj, path) == ReduceProps(obj, Split(path, "."))

\* toString() of a value that is not an array ("" for null and undefined,
\* which have none).
ScalarToString(value) ==
  CASE value.t = "str"  -> value.s
    [] value.t = "num"  -> NumberToString(value.n)
    [] value.t = "bool" -> (IF value.n = 1 THEN "true" ELSE "false")
    [] value.t = "obj"  -> "[object Object]"
    [] OTHER -> ""

\* value?.toString() || 'undefined'
ValueToString(value) ==
  LET s == CASE value.t = "str"  -> value.s
             [] value.t = "arr"  ->
                  Join([i \in 1..Len(value.o) |-> ScalarToString(value.o[i])], ",")
             [] value.t = "num"  -> NumberToString(value.n)
             [] value.t = "bool" -> (IF value.n = 1 THEN "true" ELSE "false")
             [] value.t = "obj"  -> "[object Object]"
             [] value.t = "builtin" ->
                  (IF value.s = "__proto__" THEN "[object Object]"
                   ELSE "function " \o (IF value.s = "constructor" THEN "Object" ELSE value.s)
                          \o "() { [native code] }")
             [] OTHER -> ""
  IN  IF s = "" THEN "undefined" ELSE s

RECURSIVE Substitute(_, _, _, _)
\* GetSubstitution of String.prototype.replace for a pattern without capture
\* groups: $$ is "$", $& the match, $' the text after the match (the text
\* before it, written with a backquote, needs a character a TLA+ string
\* cannot hold; no file name of the model contains one).
Substitute(rep, matched, before, after) ==
  IF rep = "" THEN ""
  ELSE IF StartsWith(rep, "$$") THEN "$" \o Substitute(DropChars(rep, 2), matched, before, after)
  ELSE IF StartsWith(rep, "$&") THEN matched \o Substitute(DropChars(rep, 2), matched, before, after)
  ELSE IF StartsWith(rep, "$'") THEN after \o Substitute(DropChars(rep, 2), matched, before, after)
  ELSE CharAt(rep, 1) \o Substitute(DropChars(rep, 1), matched, before, after)

RECURSIVE ReplaceAllFrom(_, _, _, _)
ReplaceAllFrom(s, pat, rep, i) ==
  IF i > Len(s) THEN ""
  ELSE IF MatchesAt(s, pat, i)
    THEN Substitute(rep, pat, SubSeq(s, 1, i - 1), DropChars(s, i + Len(pat) - 1))
           \o ReplaceAllFrom(s, pat, rep, i + Len(pat))
  ELSE CharAt(s, i) \o ReplaceAllFrom(s, pat, rep, i + 1)

\* s.replace(/pat/g, rep) for a literal pattern and a replacement string.
ReplaceAll(s, pat, rep) == ReplaceAllFrom(s, pat, rep, 1)

\* The position of the first "}" of s at or after i, 0 when there is none.
FirstClose(s, i) ==
  LET cs == {j \in i..Len(s) : CharAt(s, j) = "}"}
  IN  IF cs = {} THEN 0 ELSE CHOOSE j \in cs : \A k \in cs : j <= k

RECURSIVE ReplaceDataFrom(_, _, _)
\* s.replace(/\{data\.([^}]+)\}/g, (match, property) => ...)
ReplaceDataFrom(s, data, i) ==
  IF i > Len(s) THEN ""
  ELSE LET j == FirstClose(s, i + 6)
       IN  IF MatchesAt(s, "{data.", i) /\ j > i + 6
             THEN ValueToString(getNestedProperty(data, SubSeq(s, i + 6, j - 1)))
                    \o ReplaceDataFrom(s, data, j + 1)
           ELSE CharAt(s, i) \o ReplaceDataFrom(s, data, i + 1)

\* applyNamingRule(namingRule, {index, data, fileName})
applyNamingRule(namingRule, context) ==
  LET f1 == ReplaceAll(namingRule, "{index}", NumberToString(context.index))
      f2 == IF context.fileName # "" THEN ReplaceAll(f1, "{fileName}", context.fileName)
            ELSE f1
  IN  ReplaceDataFrom(f2, context.data, 1)

(***************************************************************************)
(* The files the pipeline reads.  They live outside the output root and    *)
(* are not changed by the pipeline.                                        *)
(***************************************************************************)
\* What a failed read, listing or stat yields.
ENOENT == "<ENOENT>"

\* fs.readFile(path, 'utf-8'): the text of the file, ENOENT when the read fails.
ReadFileText(path) ==
  CASE path = "/w/t/page.html"      -> "<h1 data-gen-text=title>"
    [] path = "/w/t/inc.html"       -> "<t include=h.html><t include=h.html>"
    [] path = "/w/t/nest.html"      -> "<t include=n.html>"
    [] path = "/w/t/miss.html"      -> "<t include=nope.html>"
    [] path = "/w/t/ctor.html"      -> "<t include=constructor>"
    [] path = "/w/d/hi.json"        -> "{\"title\":\"Hi\",\"id\":\"x7\"}"
    [] path = "/w/d/bad.json"       -> "{oops"
    [] path = "/w/data/ok/a.json"   -> "{\"title\":\"Hi\",\"id\":\"x7\"}"
    [] path = "/w/data/ok/B.JSON"   -> "{\"title\":\"Yo\",\"meta\":{\"id\":\"m1\",\"n\":0}}"
    [] path = "/w/data/bad/a.json"  -> "{\"title\":\"Hi\",\"id\":\"x7\"}"
    [] path = "/w/data/bad/bad.json" -> "{oops"
    [] path = "/w/data/bad/c.json"  -> "{\"title\":\"Yo\",\"meta\":{\"id\":\"m1\",\"n\":0}}"
    [] path = "/w/data/up/...json"  -> "{\"id\":\"../up\"}"
    [] path = "/w/base/bye.json"    -> "{\"title\":\"Bye\"}"
    [] path = "/w/base/site.json"   -> "{\"site\":\"S\",\"meta\":{\"v\":1}}"
    [] path = "/w/base/null.json"   -> "null"
    [] path = "/w/base/bad.json"    -> "{oops"
    [] path = "/w/inc/constructor"  -> "<ctor>"
    [] path = "/w/inc/h.html"       -> "<header data-gen-text=title>"
    [] path = "/w/inc/n.html"       -> "<nav><t include=sub/d.html>"
    [] path = "/w/inc/sub/d.html"   -> "<div>"
    [] path = "/w/part/h.html"      -> "<header data-gen-text=title>"
    [] path = "/w/lock/h.html"      -> "<header data-gen-text=title>"
    [] path = "/w/part/z.html"      -> "<z>"
    [] path = "/w/deep/h.html"      -> "<header data-gen-text=title>"
    [] path = "/w/deep/sub/d.html"  -> "<div>"
    [] path = "/w/deep/n.html"      -> "<nav><t include=sub/d.html>"
    [] path = "/w/t/loop.html"      -> "<t include=loop.html>"
    [] path = "/w/t/ring.html"      -> "<t include=a.html>"
    [] path = "/w/t/chain.html"     -> "<t include=c1.html>"
    [] path = "/w/cyc/loop.html"    -> "<t include=loop.html>"
    [] path = "/w/cyc/a.html"       -> "<a><t include=b.html>"
    [] path = "/w/cyc/b.html"       -> "<b><t include=a.html>"
    [] path = "/w/cyc/c1.html"      -> "<c1><t include=c2.html>"
    [] path = "/w/cyc/c2.html"      -> "<c2>"
    [] OTHER -> ENOENT

\* fs.readdir(path): the entry names in listing order, <<ENOENT>> when the
\* directory cannot be listed.
ReadDir(path) ==
  CASE path = "/w/data/ok"    -> <<"a.json", "notes.txt", "B.JSON">>
    [] path = "/w/data/bad"   -> <<"a.json", "bad.json", "c.json">>
    [] path = "/w/data/empty" -> <<"notes.txt", ".json">>
    [] path = "/w/data/up"    -> <<"...json">>
    [] path = "/w/inc"        -> <<"constructor", "h.html", "n.html", "sub">>
    [] path = "/w/inc/sub"    -> <<"d.html">>
    [] path = "/w/cyc"        -> <<"a.html", "b.html", "c1.html", "c2.html", "loop.html">>
    [] path = "/w/part"       -> <<"h.html", "lost", "z.html">>
    [] path = "/w/lock"       -> <<"h.html", "sub">>
    [] path = "/w/deep"       -> <<"h.html", "n.html", "sub">>
    [] path = "/w/deep/sub"   -> <<"d.html", "lost">>
    [] OTHER -> <<ENOENT>>

\* Directories fs.stat reports as such and fs.readdir fails on.
UnlistableDirs == {"/w/lock/sub"}

\* fs.stat(path): "dir", "file", or ENOENT when the entry cannot be inspected.
Stat(path) ==
  IF ReadDir(path) # <<ENOENT>> \/ path \in UnlistableDirs THEN "dir"
  ELSE IF ReadFileText(path) # ENOENT THEN "file"
  ELSE ENOENT

\* The include sites the engine finds in a text, in document order: the key
\* it asks the resolver for and the scoped data it passes (Undefined: none).
IncludesOf(html) ==
  CASE html = "<t include=h.html><t include=h.html>" ->
         <<[key |-> "h.html", scoped |-> Obj([title |-> Str("one")])],
           [key |-> "h.html", scoped |-> Obj([title |-> Str("two")])]>>
    [] html = "<t include=n.html>" -> <<[key |-> "n.html", scoped |-> Undefined]>>
    [] html = "<t include=constructor>" -> <<[key |-> "constructor", scoped |-> Undefined]>>
    [] html = "<t include=nope.html>" ->
         <<[key |-> "nope.html", scoped |-> Obj([title |-> Str("one")])]>>
    [] html = "<nav><t include=sub/d.html>" ->
         <<[key |-> "sub/d.html", scoped |-> Obj([title |-> Str("two")])]>>
    [] html = "<t include=loop.html>" -> <<[key |-> "loop.html", scoped |-> Undefined]>>
    [] html = "<t include=a.html>" -> <<[key |-> "a.html", scoped |-> Undefined]>>
    [] html = "<a><t include=b.html>" -> <<[key |-> "b.html", scoped |-> Undefined]>>
    [] html = "<b><t include=a.html>" -> <<[key |-> "a.html", scoped |-> Undefined]>>
    [] html = "<t include=c1.html>" -> <<[key |-> "c1.html", scoped |-> Undefined]>>
    [] html = "<c1><t include=c2.html>" -> <<[key |-> "c2.html", scoped |-> Undefined]>>
    [] OTHER -> <<>>

\* The result of the engine, process(...).html: a function of its input.
Rendered(html, data) == [html |-> html, data |-> data]

(***************************************************************************)
(* The state of one GentlNode instance and of the files it writes.         *)
(***************************************************************************)
VARIABLES
  rootDir,                 \* this.rootDir
  includeDir,              \* this.includeDir ("" when undefined)
  includeNotFoundHandler,  \* whether this.includeNotFoundHandler is set
  baseData,                \* this.baseData, as the value a reader of it sees
  heap,                    \* the objects base data is made of: address -> properties
  baseDataRef,             \* this.baseData, as the cell the field holds
  returned,                \* what getBaseData has returned, oldest first
  fileContentCache,        \* this.fileContentCache: include key -> raw text
  dirs,                    \* the directories that exist at or near the output root
  files,                   \* the files that exist there: path -> content
  call,                    \* the generation calls: slot -> its locals and position
  baseOp,                  \* the setBaseData call in flight, if any
  baseHist,                \* the base-data operations completed, oldest first
  ncalls,                  \* generation calls started
  nbase,                   \* base-data operations started
  fnIn, fnOut,             \* input and result of a pure function under test
  workload                 \* the workload the behaviour follows

vars == <<workload, rootDir, includeDir, includeNotFoundHandler, baseData, fileContentCache,
          dirs, files, call, baseOp, baseHist, ncalls, nbase, fnIn, fnOut,
          heap, baseDataRef, returned>>

\* The objects reachable from this.baseData or from a record getBaseData returned.
memory == <<heap, baseDataRef, returned>>

config == <<workload, rootDir, includeDir, includeNotFoundHandler>>

\* The slots in which generation calls run; calls in different slots interleave
\* at their awaits.
Slots == IF workload = "interleave" THEN {1, 2} ELSE {1}

\* The directories that exist before the pipeline runs: the output root and
\* its ancestors.
InitDirs == {"/", "/w", "/w/r"}

NoError == [wrapped |-> "", cause |-> ""]

\* A slot in which no call has run yet.
IdleCall ==
  [pc |-> "idle", kind |-> "",
   templatePath |-> "", dataPath |-> "", outputPath |-> "", namingRule |-> "",
   resolvedOutput |-> "",      \* resolvedOutputPath / resolvedOutputDir
   html |-> "",
   dataFiles |-> <<>>, jsonFiles |-> <<>>, index |-> 0,
   fileData |-> Undefined, data |-> Undefined,
   hasIncludeIo |-> FALSE,     \* whether includeIo is a function
   includeFileMap |-> <<>>,    \* the catalog the includeIo closure holds
   stack |-> <<>>,             \* the engine invocations in progress, outermost first
   pending |-> [key |-> "", scoped |-> Undefined],
   target |-> "",              \* the path of the write in flight
   result |-> Rendered("", Undefined),
   generatedFiles |-> <<>>,
   error |-> NoError,
   \* What the call has done so far, for the properties:
   baseDataAtStart |-> Undefined,  \* this.baseData when the method was called
   reads |-> <<>>,             \* paths given to fs.readFile
   listed |-> <<>>,            \* directories given to fs.readdir by the catalog build
   engineCalls |-> <<>>,       \* inputs of gentlProcess
   handlerCalls |-> <<>>,      \* arguments of includeNotFoundHandler
   includeResults |-> <<>>,    \* what includeIo returned
   items |-> <<>>,             \* per batch item: naming context, name, output path
   mkdirs |-> <<>>,            \* paths given to fs.mkdir
   created |-> {},             \* directories fs.mkdir created
   writes |-> <<>>,            \* successful fs.writeFile calls
   logs |-> <<>>]              \* warn and error entries, and the debug entry of
                               \* buildIncludeIo returning early

Finished(cl) == cl.pc \in {"idle", "done", "failed"}

\* A log entry with the data of its context; data is kept for the entries
\* the catch blocks of the public methods log and is empty for the others.
LogEntryWith(level, message, data) == [level |-> level, message |-> message, data |-> data]

LogEntry(level, message) == LogEntryWith(level, message, <<>>)

\* The data the catch block of the call's method puts in the log context:
\* the arguments of the method.
CatchContext(cl) ==
  IF cl.kind = "generateFile"
    THEN [templatePath |-> cl.templatePath, dataPath |-> cl.dataPath,
          outputPath |-> cl.outputPath]
    ELSE [templatePath |-> cl.templatePath, dataPath |-> cl.dataPath,
          outputDir |-> cl.outputPath, namingRule |-> cl.namingRule]

\* The message prefix of the error the method throws.
MethodPrefix(kind) ==
  IF kind = "generateFile" THEN "Failed to generate file" ELSE "Failed to generate files"

\* A catch block that rethrows without logging.
FailUnlogged(cl, cause) ==
  [cl EXCEPT !.pc = "failed",
             !.error = [wrapped |-> MethodPrefix(cl.kind), cause |-> cause],
             !.stack = <<>>]

\* The catch block of generateFile / generateFiles: log at error with the
\* arguments, then throw new Error(prefix: cause).  The error thrown is a
\* message only: the prefix and the text of the cause.
Fail(cl, cause) ==
  [cl EXCEPT !.pc = "failed",
             !.error = [wrapped |-> MethodPrefix(cl.kind), cause |-> cause],
             !.stack = <<>>,
             !.logs = Append(@, LogEntryWith("error", MethodPrefix(cl.kind), CatchContext(cl)))]

\* A validation that resolves the path and accepts it wherever it lies.
validateOutputPathAccepting(filePath) ==
  [ok |-> TRUE, path |-> PathResolve(rootDir, filePath)]

\* validateOutputPath(filePath): the resolved path, or a throw.
validateOutputPath(filePath) ==
  LET resolvedPath == PathResolve(rootDir, filePath)
      relativePath == PathRelative(rootDir, resolvedPath)
  IN  IF StartsWith(relativePath, "..") \/ PathIsAbsolute(relativePath)
        THEN [ok |-> FALSE, path |-> ""]
        ELSE [ok |-> TRUE, path |-> resolvedPath]

\* A filter that compares the extension as it is spelled.
jsonFilterCaseSensitive(dataFiles) ==
  SelectSeq(dataFiles, LAMBDA file : PathExtname(file) = ".json")

\* dataFiles.filter(file => path.extname(file).toLowerCase() === '.json')
jsonFilter(dataFiles) ==
  SelectSeq(dataFiles, LAMBDA file : ToLowerCase(PathExtname(file)) = ".json")

\* A key with the extension of the file stripped.
IncludeKeyWithoutExtension(relativePath, file) ==
  IF relativePath # "" THEN relativePath \o "/" \o PathStem(file) ELSE PathStem(file)

\* relativePath ? relativePath + "/" + file : file
IncludeKey(relativePath, file) ==
  IF relativePath # "" THEN relativePath \o "/" \o file ELSE file

RECURSIVE buildIncludeFileMap(_, _, _)
RECURSIVE WalkEntries(_, _, _, _)
\* The loop of buildIncludeFileMap over the entries of one directory.
WalkEntries(currentDir, relativePath, names, acc) ==
  IF ~acc.ok \/ names = <<>> THEN acc
  ELSE LET file     == Head(names)
           filePath == PathJoin(currentDir, file)
           st       == Stat(filePath)
           key      == IncludeKey(relativePath, file)
       IN  IF st = ENOENT THEN [ok |-> FALSE, map |-> acc.map]
           ELSE IF st = "dir"
             THEN WalkEntries(currentDir, relativePath, Tail(names),
                              buildIncludeFileMap(filePath, key, acc.map))
           ELSE WalkEntries(currentDir, relativePath, Tail(names),
                            [ok |-> TRUE, map |-> (key :> filePath) @@ acc.map])

\* buildIncludeFileMap(currentDir, relativePath, includeFileMap): the map with
\* the files under currentDir added; ok is FALSE when a readdir or stat threw.
buildIncludeFileMap(currentDir, relativePath, includeFileMap) ==
  LET names == ReadDir(currentDir)
  IN  IF names = <<ENOENT>> THEN [ok |-> FALSE, map |-> includeFileMap]
      ELSE WalkEntries(currentDir, relativePath, names, [ok |-> TRUE, map |-> includeFileMap])

\* this.fileContentCache[key] !== undefined: an inherited property counts.
CacheHit(key) == key \in DOMAIN fileContentCache \/ key \in ProtoKeys

\* this.fileContentCache[key]; an inherited property is not a file's text.
CacheGet(key) ==
  IF key \in DOMAIN fileContentCache THEN fileContentCache[key]
  ELSE "[Object.prototype." \o key \o "]"

\* A path and its ancestors.
RECURSIVE SelfAndAncestors(_)
SelfAndAncestors(p) ==
  IF p = "/" THEN {"/"} ELSE {p} \cup SelfAndAncestors(PathDirname(p))

\* One invocation of the engine: its input and the next include site.
Frame(html, data, key) == [html |-> html, data |-> data, idx |-> 1, key |-> key]

EngineInput(html, data, top, key) == [html |-> html, data |-> data, top |-> top, key |-> key]

(***************************************************************************)
(* generateFile and generateFiles.  Each action is the code between two    *)
(* awaits: it completes the operation awaited and runs to the next await.  *)
(***************************************************************************)
Upd(c, cl) == call' = [call EXCEPT ![c] = cl]

\* gentlProcess(input, this.options) is called at the top level.
EnterEngine(cl) ==
  [cl EXCEPT !.pc = "engine",
             !.stack = <<Frame(cl.html, cl.data, "")>>,
             !.engineCalls = Append(@, EngineInput(cl.html, cl.data, TRUE, ""))]

\* generateFile up to its first await: validate the output path, start
\* reading the template.
generateFile(c, templatePath, dataPath, outputPath) ==
  /\ Finished(call[c])
  /\ ncalls < MaxCalls
  /\ ncalls' = ncalls + 1
  /\ LET v  == validateOutputPath(outputPath)
         cl == [IdleCall EXCEPT !.kind = "generateFile",
                                !.baseDataAtStart = baseData,
                                !.templatePath = templatePath,
                                !.dataPath = dataPath,
                                !.outputPath = outputPath]
     IN  IF ~v.ok
           THEN Upd(c, Fail(cl, "Output path must be within the output root directory"))
           ELSE Upd(c, [cl EXCEPT !.pc = "readTemplate",
                                  !.resolvedOutput = v.path,
                                  !.reads = <<PathResolve(Cwd, templatePath)>>])
  /\ UNCHANGED <<memory, config, baseData, fileContentCache, dirs, files, baseOp, baseHist,
                 nbase, fnIn, fnOut>>

\* generateFiles up to its first await.
generateFiles(c, templatePath, dataPath, outputDir, namingRule) ==
  /\ Finished(call[c])
  /\ ncalls < MaxCalls
  /\ ncalls' = ncalls + 1
  /\ LET v  == validateOutputPath(outputDir)
         cl == [IdleCall EXCEPT !.kind = "generateFiles",
                                !.baseDataAtStart = baseData,
                                !.templatePath = templatePath,
                                !.dataPath = dataPath,
                                !.outputPath = outputDir,
                                !.namingRule = namingRule]
     IN  IF ~v.ok
           THEN Upd(c, Fail(cl, "Output directory must be within the output root directory"))
           ELSE Upd(c, [cl EXCEPT !.pc = "readTemplate",
                                  !.resolvedOutput = v.path,
                                  !.reads = <<PathResolve(Cwd, templatePath)>>])
  /\ UNCHANGED <<memory, config, baseData, fileContentCache, dirs, files, baseOp, baseHist,
                 nbase, fnIn, fnOut>>

\* The template read completes; generateFile goes on to read the data file,
\* generateFiles to list the data directory.
ReadTemplateDone(c) ==
  LET cl   == call[c]
      text == ReadFileText(PathResolve(Cwd, cl.templatePath))
  IN  /\ cl.pc = "readTemplate"
      /\ IF text = ENOENT THEN Upd(c, Fail(cl, "ENOENT: template"))
         ELSE IF cl.kind = "generateFile"
           THEN Upd(c, [cl EXCEPT !.pc = "readData", !.html = text,
                                  !.reads = Append(@, PathResolve(Cwd, cl.dataPath))])
         ELSE Upd(c, [cl EXCEPT !.pc = "readDir", !.html = text])
      /\ UNCHANGED <<memory, config, baseData, fileContentCache, dirs, files, baseOp, baseHist,
                     ncalls, nbase, fnIn, fnOut>>

\* generateFile: the data read completes; parse, merge, call buildIncludeIo.
ReadDataDone(c) ==
  LET cl   == call[c]
      text == ReadFileText(PathResolve(Cwd, cl.dataPath))
  IN  /\ cl.pc = "readData"
      /\ IF text = ENOENT THEN Upd(c, Fail(cl, "ENOENT: data"))
         ELSE IF JsonParseThrows(text) THEN Upd(c, Fail(cl, "SyntaxError"))
         ELSE Upd(c, [cl EXCEPT !.pc = "buildIncludeIo",
                                !.fileData = JsonParse(text),
                                !.data = mergeData(JsonParse(text), baseData),
                                !.items = <<[index |-> 0, fileName |-> "", jsonFile |-> "",
                                             fileData |-> JsonParse(text), baseData |-> baseData,
                                             filename |-> "", outputPath |-> cl.resolvedOutput]>>])
      /\ UNCHANGED <<memory, config, baseData, fileContentCache, dirs, files, baseOp, baseHist,
                     ncalls, nbase, fnIn, fnOut>>

\* A generateFiles that returns an empty list when no entry is selected.
EmptySelectionReturnsNothing(cl, dataFiles) ==
  [cl EXCEPT !.pc = "done", !.dataFiles = dataFiles]

\* if (jsonFiles.length === 0): log at error and throw.
EmptySelection(cl, dataFiles) ==
  Fail([cl EXCEPT !.dataFiles = dataFiles,
                  !.logs = Append(@, LogEntry("error", "No JSON files found in data directory"))],
       "No JSON files found in the specified data directory")

\* generateFiles: the listing of the data directory completes; filter it,
\* call buildIncludeIo.
ReadDirDone(c) ==
  LET cl        == call[c]
      dataFiles == ReadDir(PathResolve(Cwd, cl.dataPath))
      jsonFiles == jsonFilter(dataFiles)
  IN  /\ cl.pc = "readDir"
      /\ IF dataFiles = <<ENOENT>> THEN Upd(c, Fail(cl, "ENOENT: data directory"))
         ELSE IF Len(jsonFiles) = 0
           THEN Upd(c, EmptySelection(cl, dataFiles))
         ELSE Upd(c, [cl EXCEPT !.pc = "buildIncludeIo",
                                !.dataFiles = dataFiles,
                                !.jsonFiles = jsonFiles])
      /\ UNCHANGED <<memory, config, baseData, fileContentCache, dirs, files, baseOp, baseHist,
                     ncalls, nbase, fnIn, fnOut>>

\* generateFile creates the output directory before it calls the engine.
AfterBuildMkdirFirst(cl) ==
  [cl EXCEPT !.pc = "mkdir",
             !.mkdirs = Append(@, IF cl.kind = "generateFile"
                                    THEN PathDirname(cl.resolvedOutput) ELSE cl.resolvedOutput)]

\* What follows the await of this.buildIncludeIo(): generateFile calls the engine,
\* generateFiles creates the output directory.
AfterBuild(cl) ==
  IF cl.kind = "generateFile" THEN EnterEngine(cl)
  ELSE [cl EXCEPT !.pc = "mkdir", !.mkdirs = Append(@, cl.resolvedOutput)]

\* buildIncludeIo completes: the catalog is built and includeIo is a function,
\* or includeIo is undefined.  generateFile then calls the engine,
\* generateFiles creates the output directory.
\* The catch of buildIncludeIo rethrowing instead of returning undefined.
IncludeDirectoryUnreadableThrows(cl) ==
  Fail([cl EXCEPT !.listed = <<includeDir>>], "Could not read include directory")

\* A catch of buildIncludeIo that keeps the entries found before the failure.
IncludeDirectoryUnreadablePartial(cl) ==
  AfterBuild([cl EXCEPT !.hasIncludeIo = TRUE,
                        !.includeFileMap = buildIncludeFileMap(includeDir, "", <<>>).map,
                        !.listed = <<includeDir>>])

\* The catch of buildIncludeIo: a warning is logged and undefined is returned,
\* so the caller goes on without includeIo.
IncludeDirectoryUnreadable(cl) ==
  AfterBuild([cl EXCEPT !.listed = <<includeDir>>,
                        !.logs = Append(@, LogEntry("warn", "Could not read include directory"))])

buildIncludeIo(c) ==
  LET cl    == call[c]
      built == buildIncludeFileMap(includeDir, "", <<>>)
  IN  /\ cl.pc = "buildIncludeIo"
      /\ Upd(c, IF includeDir = ""
                  THEN AfterBuild([cl EXCEPT !.logs =
                         Append(@, LogEntry("debug", "No include directory specified"))])
                ELSE IF built.ok
                  THEN AfterBuild([cl EXCEPT !.hasIncludeIo = TRUE,
                                             !.includeFileMap = built.map,
                                             !.listed = <<includeDir>>])
                ELSE IncludeDirectoryUnreadable(cl))
      /\ UNCHANGED <<memory, config, baseData, fileContentCache, dirs, files, baseOp, baseHist,
                     ncalls, nbase, fnIn, fnOut>>

\* generateFiles: start reading the data file at cl.index.
IssueItemRead(cl) ==
  [cl EXCEPT !.pc = "readItem",
             !.reads = Append(@, PathJoin(PathResolve(Cwd, cl.dataPath),
                                          cl.jsonFiles[cl.index + 1]))]

\* A batch that logs a failing item and goes on with the next one.
ItemFailureSkips(cl, cause) ==
  LET logged == [cl EXCEPT !.index = @ + 1,
                           !.stack = <<>>,
                           !.logs = Append(@, LogEntry("error", cause))]
  IN  IF cl.index + 1 < Len(cl.jsonFiles) THEN IssueItemRead(logged)
      ELSE [logged EXCEPT !.pc = "done"]

\* A throw inside the loop of generateFiles: nothing in the loop catches it,
\* so it reaches the catch block of the method.
ItemFailure(cl, cause) == Fail(cl, cause)

\* generateFiles: the read of the next data file completes; parse, merge,
\* expand the naming rule, call the engine.
ReadItemDone(c) ==
  LET cl       == call[c]
      jsonFile == cl.jsonFiles[cl.index + 1]
      text     == ReadFileText(PathJoin(PathResolve(Cwd, cl.dataPath), jsonFile))
      fileData == JsonParse(text)
      data     == mergeData(fileData, baseData)
      context  == [index |-> cl.index, data |-> data, fileName |-> PathStem(jsonFile)]
      filename == applyNamingRule(cl.namingRule, context)
      outputPath == PathJoin(cl.resolvedOutput, filename)
  IN  /\ cl.pc = "readItem"
      /\ IF text = ENOENT THEN Upd(c, ItemFailure(cl, "ENOENT: data"))
         ELSE IF JsonParseThrows(text) THEN Upd(c, ItemFailure(cl, "SyntaxError"))
         ELSE Upd(c, EnterEngine(
                [cl EXCEPT !.fileData = fileData,
                           !.data = data,
                           !.target = outputPath,
                           !.items = Append(@, [index |-> context.index,
                                                fileName |-> context.fileName,
                                                jsonFile |-> jsonFile,
                                                fileData |-> fileData, baseData |-> baseData,
                                                filename |-> filename,
                                                outputPath |-> outputPath])]))
      /\ UNCHANGED <<memory, config, baseData, fileContentCache, dirs, files, baseOp, baseHist,
                     ncalls, nbase, fnIn, fnOut>>

(***************************************************************************)
(* The engine (gentlProcess) and the includeIo closure.  The engine asks   *)
(* includeIo for the include sites of its input in order, awaiting each,   *)
(* and lets a rejection of includeIo propagate; without an includeIo it    *)
(* resolves nothing.                                                       *)
(***************************************************************************)
Top(cl) == cl.stack[Len(cl.stack)]

\* The innermost engine invocation has an include site left to resolve.
HasSite(cl) == cl.hasIncludeIo /\ Top(cl).idx <= Len(IncludesOf(Top(cl).html))

\* An includeIo that returns nothing for a key it is already resolving.
PushIncludeGuarded(cl, key, content, scoped) ==
  LET data == IF Truthy(scoped) THEN scoped ELSE EmptyObj
  IN  IF \E i \in 1..Len(cl.stack) : cl.stack[i].key = key
        THEN [cl EXCEPT !.pc = "engine",
                        !.stack = [cl.stack EXCEPT ![Len(cl.stack)].idx = @ + 1]]
        ELSE [cl EXCEPT !.pc = "engine",
                        !.stack = Append(@, Frame(content, data, key)),
                        !.engineCalls = Append(@, EngineInput(content, data, FALSE, key))]

\* gentlProcess({html: content, data: baseData || {}, includeIo}) inside
\* includeIo.  Nothing in the code limits the nesting; the process can hold
\* MaxDepth engine invocations, and one more exhausts it: the call neither
\* returns nor throws.
PushInclude(cl, key, content, scoped) ==
  LET data == IF Truthy(scoped) THEN scoped ELSE EmptyObj
  IN  IF Len(cl.stack) >= MaxDepth
        THEN [cl EXCEPT !.pc = "exhausted"]
        ELSE [cl EXCEPT !.pc = "engine",
                        !.stack = Append(@, Frame(content, data, key)),
                        !.engineCalls = Append(@, EngineInput(content, data, FALSE, key))]

\* includeIo returned value to the engine invocation that awaited it.
ReturnToCaller(cl, stack, value) ==
  [cl EXCEPT !.pc = "engine",
             !.stack = [stack EXCEPT ![Len(stack)].idx = @ + 1],
             !.includeResults = Append(@, value)]

IncludeNotFoundMessage == "Include file not found and no include not found handler provided"

\* An includeIo that returns empty content for a key it cannot find when no
\* handler is configured.
IncludeNotFoundSwallowed(cl, site) ==
  LET warned == [cl EXCEPT !.logs = Append(@, LogEntry("warn", "Include file not found"))]
  IN  IF includeNotFoundHandler
        THEN [warned EXCEPT !.pc = "handler",
                            !.pending = site,
                            !.handlerCalls = Append(@, [key |-> site.key, baseData |-> site.scoped])]
        ELSE ReturnToCaller(warned, cl.stack,
                            [key |-> site.key, from |-> "none", html |-> "", data |-> site.scoped])

\* includeIo for a key without a catalog entry: call the handler with
\* (key, baseData), or log at error and throw.
IncludeNotFound(cl, site) ==
  LET warned == [cl EXCEPT !.logs = Append(@, LogEntry("warn", "Include file not found"))]
  IN  IF includeNotFoundHandler
        THEN [warned EXCEPT !.pc = "handler",
                            !.pending = site,
                            !.handlerCalls = Append(@, [key |-> site.key, baseData |-> site.scoped])]
        ELSE Fail([warned EXCEPT !.logs = Append(@, LogEntry("error", IncludeNotFoundMessage))],
                  IncludeNotFoundMessage)

\* The engine calls includeIo(key, baseData); includeIo runs to its first await.
includeIo(c) ==
  LET cl   == call[c]
      site == IncludesOf(Top(cl).html)[Top(cl).idx]
      key  == site.key
  IN  /\ cl.pc = "engine"
      /\ HasSite(cl)
      /\ IF key \notin DOMAIN cl.includeFileMap
           THEN Upd(c, IncludeNotFound(cl, site))
         ELSE IF CacheHit(key)
           THEN Upd(c, PushInclude(cl, key, CacheGet(key), site.scoped))
         ELSE Upd(c, [cl EXCEPT !.pc = "includeRead",
                                !.pending = site,
                                !.reads = Append(@, cl.includeFileMap[key])])
      /\ UNCHANGED <<memory, config, baseData, fileContentCache, dirs, files, baseOp, baseHist,
                     ncalls, nbase, fnIn, fnOut>>

\* A store under the key of the resolution that was suspended first, as if
\* the key were kept in a field of the instance while the read is awaited.
CacheStoreSharedKey(cache, key, content) ==
  LET waiting == {c \in Slots : call[c].pc = "includeRead"}
      first   == CHOOSE c \in waiting : \A d \in waiting : c <= d
  IN  IF waiting = {} THEN cache
      ELSE (call[first].pending.key :> content) @@ cache

\* this.fileContentCache[key] = content (assigning a string to __proto__ stores nothing).
CacheStore(cache, key, content) ==
  IF key = "__proto__" THEN cache ELSE (key :> content) @@ cache

\* The fragment read inside includeIo completes; cache it, render it.
IncludeReadDone(c) ==
  LET cl   == call[c]
      key  == cl.pending.key
      text == ReadFileText(cl.includeFileMap[key])
  IN  /\ cl.pc = "includeRead"
      /\ IF text = ENOENT
           THEN /\ Upd(c, Fail(cl, "ENOENT: include"))
                /\ UNCHANGED fileContentCache
           ELSE /\ fileContentCache' = CacheStore(fileContentCache, key, text)
                /\ Upd(c, PushInclude(cl, key, text, cl.pending.scoped))
      /\ UNCHANGED <<memory, config, baseData, dirs, files, baseOp, baseHist,
                     ncalls, nbase, fnIn, fnOut>>

\* What the configured includeNotFoundHandler of the model returns.
HandlerResult(key, scoped) == "<X/>"

\* The includeNotFoundHandler completes; includeIo returns its result.
HandlerDone(c) ==
  LET cl == call[c]
  IN  /\ cl.pc = "handler"
      /\ Upd(c, ReturnToCaller(cl, cl.stack,
                               [key |-> cl.pending.key, from |-> "handler",
                                html |-> HandlerResult(cl.pending.key, cl.pending.scoped),
                                data |-> cl.pending.scoped]))
      /\ UNCHANGED <<memory, config, baseData, fileContentCache, dirs, files, baseOp, baseHist,
                     ncalls, nbase, fnIn, fnOut>>

\* An engine invocation inside includeIo completes; includeIo returns its html.
IncludeReturn(c) ==
  LET cl == call[c]
      n  == Len(cl.stack)
  IN  /\ cl.pc = "engine"
      /\ ~HasSite(cl)
      /\ n > 1
      /\ Upd(c, ReturnToCaller(cl, SubSeq(cl.stack, 1, n - 1),
                               [key |-> Top(cl).key, from |-> "engine",
                                html |-> Top(cl).html, data |-> Top(cl).data]))
      /\ UNCHANGED <<memory, config, baseData, fileContentCache, dirs, files, baseOp, baseHist,
                     ncalls, nbase, fnIn, fnOut>>

\* The top-level engine invocation completes.  generateFile then creates the
\* directory of the output path, generateFiles writes the item's file.
EngineReturn(c) ==
  LET cl  == call[c]
      res == [cl EXCEPT !.stack = <<>>, !.result = Rendered(Top(cl).html, Top(cl).data)]
  IN  /\ cl.pc = "engine"
      /\ ~HasSite(cl)
      /\ Len(cl.stack) = 1
      /\ IF cl.kind = "generateFile"
           THEN Upd(c, [res EXCEPT !.pc = "mkdir",
                                   !.mkdirs = Append(@, PathDirname(cl.resolvedOutput))])
           ELSE Upd(c, [res EXCEPT !.pc = "write"])
      /\ UNCHANGED <<memory, config, baseData, fileContentCache, dirs, files, baseOp, baseHist,
                     ncalls, nbase, fnIn, fnOut>>

\* An engine invocation throws.
EngineThrow(c) ==
  LET cl == call[c]
  IN  /\ cl.pc = "engine"
      /\ ~HasSite(cl)
      /\ Upd(c, Fail(cl, "EngineError"))
      /\ UNCHANGED <<memory, config, baseData, fileContentCache, dirs, files, baseOp, baseHist,
                     ncalls, nbase, fnIn, fnOut>>

(***************************************************************************)
(* fs.mkdir and fs.writeFile.                                              *)
(***************************************************************************)
\* fs.mkdir(p, {recursive: true}) can succeed: no file is in the way.
CanMkdir(p) == SelfAndAncestors(p) \cap DOMAIN files = {}

\* fs.writeFile(p, ...) can succeed: p names no directory and its parent exists.
CanWrite(p) == ~EndsWith(p, "/") /\ p \notin dirs /\ PathDirname(p) \in dirs

\* The mkdir completes (ok) or fails.  generateFile then writes the output
\* file, generateFiles enters its loop.
MkdirDone(c, ok) ==
  LET cl == call[c]
      p  == cl.mkdirs[Len(cl.mkdirs)]
      made == [cl EXCEPT !.created = @ \cup (SelfAndAncestors(p) \ dirs)]
  IN  /\ cl.pc = "mkdir"
      /\ ok => CanMkdir(p)
      /\ IF ~ok
           THEN /\ Upd(c, Fail(cl, "mkdir failed"))
                /\ UNCHANGED dirs
           ELSE /\ dirs' = dirs \cup SelfAndAncestors(p)
                /\ IF cl.kind = "generateFile"
                     THEN Upd(c, [made EXCEPT !.pc = "write", !.target = cl.resolvedOutput])
                     ELSE Upd(c, IssueItemRead(made))
      /\ UNCHANGED <<memory, config, baseData, fileContentCache, files, baseOp, baseHist,
                     ncalls, nbase, fnIn, fnOut>>

\* A path reported relative to the output directory of the call.
relativeToOutputDir(cl, outputPath) == PathRelative(cl.resolvedOutput, outputPath)

\* path.relative(this.rootDir, outputPath)
relativeOutputPath(cl, outputPath) == PathRelative(rootDir, outputPath)

\* A list that records each path once.
generatedFilesPushOnce(generatedFiles, relativePath) ==
  IF \E i \in 1..Len(generatedFiles) : generatedFiles[i] = relativePath
    THEN generatedFiles
    ELSE Append(generatedFiles, relativePath)

\* generatedFiles.push(relativeOutputPath)
generatedFilesPush(generatedFiles, relativePath) == Append(generatedFiles, relativePath)

\* The writeFile completes (ok) or fails.  generateFile is then done;
\* generateFiles records the relative path and goes to the next item.
WriteDone(c, ok) ==
  LET cl == call[c]
      p  == cl.target
      wrote == [cl EXCEPT !.writes = Append(@, [path |-> p, content |-> cl.result])]
  IN  /\ cl.pc = "write"
      /\ ok => CanWrite(p)
      /\ IF ~ok
           THEN /\ Upd(c, Fail(cl, "writeFile failed"))
                /\ UNCHANGED files
           ELSE /\ files' = (p :> cl.result) @@ files
                /\ IF cl.kind = "generateFile"
                     THEN Upd(c, [wrote EXCEPT !.pc = "done"])
                   ELSE IF cl.index + 1 < Len(cl.jsonFiles)
                     THEN Upd(c, IssueItemRead(
                            [wrote EXCEPT !.index = @ + 1,
                                          !.generatedFiles =
                                            generatedFilesPush(@, relativeOutputPath(cl, p))]))
                   ELSE Upd(c, [wrote EXCEPT !.pc = "done",
                                             !.index = @ + 1,
                                             !.generatedFiles =
                                            generatedFilesPush(@, relativeOutputPath(cl, p))])
      /\ UNCHANGED <<memory, config, baseData, fileContentCache, dirs, baseOp, baseHist,
                     ncalls, nbase, fnIn, fnOut>>

(***************************************************************************)
(* Base data.                                                              *)
(***************************************************************************)
IdleBaseOp == [pc |-> "idle", path |-> "", logs |-> <<>>, error |-> NoError]

\* A catch block that logs the failure and returns normally.
FailBaseOpSilent(op, cause) ==
  [pc |-> "idle", path |-> op.path,
   logs |-> <<LogEntryWith("error", "Failed to load base data", [baseDataPath |-> op.path])>>,
   error |-> NoError]

\* The catch block of setBaseData: log at error with the path, then
\* throw new Error(prefix: cause).
FailBaseOp(op, cause) ==
  [pc |-> "idle", path |-> op.path,
   logs |-> <<LogEntryWith("error", "Failed to load base data", [baseDataPath |-> op.path])>>,
   error |-> [wrapped |-> "Failed to load base data", cause |-> cause]]

\* setBaseData up to its await: start reading the file.
setBaseData(baseDataPath) ==
  /\ baseOp.pc = "idle"
  /\ nbase < MaxBaseOps
  /\ nbase' = nbase + 1
  /\ baseOp' = [pc |-> "reading", path |-> baseDataPath, logs |-> <<>>, error |-> NoError]
  /\ UNCHANGED <<memory, config, baseData, fileContentCache, dirs, files, call, baseHist,
                 ncalls, fnIn, fnOut>>

\* An assignment that merges the parsed record into the previous base data.
AssignBaseDataMerging(old, parsed) == mergeData(old, parsed)

\* this.baseData = JSON.parse(baseDataContent)
AssignBaseData(old, parsed) == parsed

\* The read of setBaseData completes: parse and assign, or log and rethrow.
SetBaseDataDone ==
  LET text == ReadFileText(PathResolve(Cwd, baseOp.path))
  IN  /\ baseOp.pc = "reading"
      /\ IF text = ENOENT \/ JsonParseThrows(text)
           THEN /\ baseOp' = FailBaseOp(baseOp, IF text = ENOENT THEN "ENOENT: base data"
                                                 ELSE "SyntaxError")
                /\ baseHist' = Append(baseHist, [op |-> "setBaseData", path |-> baseOp.path, ok |-> FALSE])
                /\ UNCHANGED <<baseData, heap, baseDataRef>>
           ELSE /\ baseData' = AssignBaseData(baseData, JsonParse(text))
                /\ heap' = Store(heap, baseData').heap
                /\ baseDataRef' = Store(heap, baseData').cell
                /\ baseHist' = Append(baseHist, [op |-> "setBaseData", path |-> baseOp.path, ok |-> TRUE])
                /\ baseOp' = [pc |-> "idle", path |-> baseOp.path, logs |-> <<>>,
                              error |-> NoError]
      /\ UNCHANGED <<config, fileContentCache, dirs, files, call, ncalls, nbase, fnIn, fnOut,
                     returned>>

\* clearBaseData
clearBaseData ==
  /\ nbase < MaxBaseOps
  /\ nbase' = nbase + 1
  /\ baseData' = EmptyObj
  /\ heap' = Store(heap, EmptyObj).heap
  /\ baseDataRef' = Store(heap, EmptyObj).cell
  /\ baseHist' = Append(baseHist, [op |-> "clearBaseData", path |-> "", ok |-> TRUE])
  /\ UNCHANGED <<config, fileContentCache, dirs, files, call, baseOp, ncalls, fnIn, fnOut,
                 returned>>

\* The bound on the getBaseData calls of a behaviour.
MaxCopies == 2

\* getBaseData: { ...this.baseData }, a new object that holds the cells of
\* the properties of this.baseData; a nested object is the same object in both.
getBaseData ==
  LET props == IF baseDataRef.t = "ref" THEN heap[baseDataRef.n] ELSE Spread(baseDataRef)
  IN  /\ Len(returned) < MaxCopies
      /\ heap' = Append(heap, props)
      /\ returned' = Append(returned, Ref(Len(heap) + 1))
      /\ UNCHANGED <<config, baseData, baseDataRef, fileContentCache, dirs, files, call,
                     baseOp, baseHist, ncalls, nbase, fnIn, fnOut>>

\* The caller assigns to a property of the record an earlier getBaseData
\* returned: record[key] = value.
CallerSetsProperty(i, key, value) ==
  LET a == returned[i].n
  IN  /\ heap' = [heap EXCEPT ![a] = (key :> value) @@ @]
      /\ baseData' = Materialize(heap', baseDataRef)
      /\ UNCHANGED <<config, baseDataRef, returned, fileContentCache, dirs, files, call,
                     baseOp, baseHist, ncalls, nbase, fnIn, fnOut>>

\* The caller assigns inside a nested value of that record:
\* record[key][inner] = value, where record[key] is an object.
CallerSetsNestedProperty(i, key, inner, value) ==
  LET a == returned[i].n
  IN  /\ key \in DOMAIN heap[a]
      /\ heap[a][key].t = "ref"
      /\ heap' = [heap EXCEPT ![heap[a][key].n] = (inner :> value) @@ @]
      /\ baseData' = Materialize(heap', baseDataRef)
      /\ UNCHANGED <<config, baseDataRef, returned, fileContentCache, dirs, files, call,
                     baseOp, baseHist, ncalls, nbase, fnIn, fnOut>>

(***************************************************************************)
(* new GentlNode(rootDirectory, options).  An option that is not given is   *)
(* the empty string (FALSE for the handler).                                *)
(***************************************************************************)
\* An include directory resolved against the output root.
constructorIncludeDirUnderRoot(rootDirectory, includeDirectory) ==
  IF includeDirectory # ""
    THEN PathResolve(PathResolve(Cwd, rootDirectory), includeDirectory)
    ELSE ""

\* this.includeDir: path.resolve(includeDirectory), which resolves against
\* the working directory of the process; undefined ("") when not given.
constructorIncludeDir(rootDirectory, includeDirectory) ==
  IF includeDirectory # "" THEN PathResolve(Cwd, includeDirectory) ELSE ""

\* What the constructor leaves when it throws: no instance.
NotConstructed(message) ==
  [ok |-> FALSE, error |-> message,
   rootDir |-> "", includeDir |-> "", includeNotFoundHandler |-> FALSE,
   logger |-> "", deleteTemplateTag |-> "", deleteDataAttributes |-> "",
   baseData |-> Undefined, fileContentCache |-> <<>>]

\* The fields of the instance a successful constructor leaves.
Constructed(rootDirectory, options) ==
  [ok |-> TRUE, error |-> "",
   rootDir |-> PathResolve(Cwd, rootDirectory),
   includeDir |-> constructorIncludeDir(rootDirectory, options.includeDirectory),
   includeNotFoundHandler |-> options.includeNotFoundHandler,
   logger |-> IF options.logger # "" THEN options.logger ELSE "default",
   deleteTemplateTag |->
     IF options.deleteTemplateTag # "" THEN options.deleteTemplateTag ELSE "true",
   deleteDataAttributes |-> "true",
   baseData |-> EmptyObj, fileContentCache |-> <<>>]

\* A constructor without the check of rootDirectory.
constructorAcceptingAnyRoot(rootDirectory, options) ==
  Constructed(rootDirectory, options)

constructor(rootDirectory, options) ==
  IF rootDirectory = "" THEN NotConstructed("Root directory is required")
  ELSE Constructed(rootDirectory, options)

\* The options of a constructor call that gives only these two.
OptionsWith(includeDirectory, handler) ==
  [includeDirectory |-> includeDirectory, includeNotFoundHandler |-> handler,
   logger |-> "", deleteTemplateTag |-> ""]

(***************************************************************************)
(* The pipelines constructed and the calls made on them.  A behaviour      *)
(* follows one workload: the options the pipeline is constructed with and  *)
(* the arguments its caller uses.                                          *)
(***************************************************************************)
Workloads ==
  {"single", "batch", "naming", "include", "handler", "gone", "bare", "base", "merge"}

\* The rootDirectory every workload constructs its pipeline with.
RootDirectoryGiven == "r"

\* options.includeDirectory of a workload ("" when not given).
IncludeDirectoryOf(w) ==
  CASE w = "include" -> "inc"
    [] w = "handler" -> "/w/inc"
    [] w = "gone" -> "gone"
    [] w = "cycle" -> "cyc"
    [] w = "partial" -> "part"
    [] w = "whole" -> "inc"
    [] w = "interleave" -> "inc"
    [] w = "locked" -> "lock"
    [] w = "nested" -> "deep"
    [] OTHER -> ""

\* Whether options.includeNotFoundHandler is given.
HandlerOf(w) == w \in {"handler", "gone", "bare"}

\* The arguments of the generateFile calls.
GenerateFileArgs ==
  CASE workload = "single" ->
         {"t/page.html", "t/none.html"} \X {"d/hi.json", "d/bad.json", "d/none.json"}
           \X {"page.html", "a/b.html", "../x.html", "..cache/x.html", ""}
    [] workload = "include" ->
         {"t/inc.html", "t/nest.html", "t/miss.html", "t/ctor.html"} \X {"d/hi.json"} \X {"page.html"}
    [] workload = "handler" ->
         {"t/inc.html", "t/miss.html"} \X {"d/hi.json"} \X {"page.html"}
    [] workload = "gone" -> {"t/inc.html", "t/miss.html"} \X {"d/hi.json"} \X {"page.html"}
    [] workload = "bare" -> {"t/inc.html", "t/miss.html"} \X {"d/hi.json"} \X {"page.html"}
    [] workload = "merge" -> {"t/page.html"} \X {"d/hi.json"} \X {"page.html"}
    [] workload = "copy" -> {"t/page.html"} \X {"d/hi.json"} \X {"page.html"}
    [] workload = "cycle" ->
         {"t/loop.html", "t/ring.html", "t/chain.html", "t/page.html"}
           \X {"d/hi.json"} \X {"page.html", "a/b.html"}
    [] workload = "overlap" -> {"t/page.html"} \X {"d/hi.json"} \X {"page.html"}
    [] workload = "interleave" ->
         {"t/inc.html", "t/nest.html", "t/ctor.html"} \X {"d/hi.json"} \X {"page.html"}
    [] workload \in {"partial", "nested", "locked", "whole"} ->
         {"t/inc.html", "t/nest.html"} \X {"d/hi.json"} \X {"page.html", "a/b.html"}
    [] OTHER -> {}

\* The arguments of the generateFiles calls.
GenerateFilesArgs ==
  CASE workload = "batch" ->
         ({"t/page.html"}
            \X {"data/ok", "data/bad", "data/empty", "data/up", "data/none"}
            \X {"."} \X {"{index}.html"})
         \cup ({"t/page.html", "t/none.html"} \X {"data/ok"} \X {"out", "../o"} \X {"{index}.html"})
    [] workload = "naming" ->
         {"t/page.html"}
           \X {"data/ok", "data/up"}
           \X {".", "out"}
           \X {"{index}.html", "{fileName}.html", "{data.id}.html", "../{index}.html"}
         \cup ({"t/page.html"} \X {"data/ok"} \X {"."} \X {"page.html"})
    [] workload = "include" ->
         {"t/inc.html", "t/miss.html"} \X {"data/ok", "data/empty"} \X {"."} \X {"{index}.html"}
    [] workload = "handler" ->
         {"t/inc.html", "t/miss.html"} \X {"data/ok"} \X {"."} \X {"{index}.html"}
    [] workload = "gone" -> {"t/inc.html"} \X {"data/ok"} \X {"."} \X {"{index}.html"}
    [] workload = "bare" -> {"t/miss.html"} \X {"data/ok"} \X {"."} \X {"{index}.html"}
    [] workload = "merge" -> {"t/page.html"} \X {"data/ok"} \X {"."} \X {"{index}.html"}
    [] workload = "overlap" -> {"t/page.html"} \X {"data/ok"} \X {"."} \X {"{index}.html"}
    [] OTHER -> {}

\* The files given to setBaseData.
BaseDataPaths ==
  CASE workload = "base" -> {"base/bye.json", "base/site.json", "base/null.json", "base/bad.json",
                             "base/none.json"}
    [] workload = "merge" -> {"base/bye.json", "base/site.json"}
    [] workload = "copy" -> {"base/site.json"}
    [] workload = "overlap" -> {"base/bye.json"}
    [] OTHER -> {}

\* The state after new GentlNode(rootDirectory, options).
Init ==
  /\ workload \in Workloads
  /\ LET made == constructor(RootDirectoryGiven,
                              OptionsWith(IncludeDirectoryOf(workload), HandlerOf(workload)))
     IN  /\ rootDir = made.rootDir
         /\ includeDir = made.includeDir
         /\ includeNotFoundHandler = made.includeNotFoundHandler
         /\ baseData = made.baseData
         /\ heap = Store(<<>>, made.baseData).heap
         /\ baseDataRef = Store(<<>>, made.baseData).cell
         /\ fileContentCache = made.fileContentCache
  /\ returned = <<>>
  /\ dirs = InitDirs
  /\ files = <<>>
  /\ call = [c \in Slots |-> IdleCall]
  /\ baseOp = IdleBaseOp
  /\ baseHist = <<>>
  /\ ncalls = 0
  /\ nbase = 0
  /\ fnIn = <<>>
  /\ fnOut = <<>>

\* No call of any kind is in flight.
Quiet == baseOp.pc = "idle" /\ \A c \in Slots : Finished(call[c])

\* The pipeline used by one caller that awaits each call before the next.
Next ==
  \/ Quiet /\ \E c \in Slots, a \in GenerateFileArgs : generateFile(c, a[1], a[2], a[3])
  \/ Quiet /\ \E c \in Slots, a \in GenerateFilesArgs : generateFiles(c, a[1], a[2], a[3], a[4])
  \/ \E c \in Slots : ReadTemplateDone(c)
  \/ \E c \in Slots : ReadDataDone(c)
  \/ \E c \in Slots : ReadDirDone(c)
  \/ \E c \in Slots : buildIncludeIo(c)
  \/ \E c \in Slots : ReadItemDone(c)
  \/ \E c \in Slots : includeIo(c)
  \/ \E c \in Slots : IncludeReadDone(c)
  \/ \E c \in Slots : HandlerDone(c)
  \/ \E c \in Slots : IncludeReturn(c)
  \/ \E c \in Slots : EngineReturn(c)
  \/ \E c \in Slots : EngineThrow(c)
  \/ \E c \in Slots, ok \in BOOLEAN : MkdirDone(c, ok)
  \/ \E c \in Slots, ok \in BOOLEAN : WriteDone(c, ok)
  \/ Quiet /\ \E p \in BaseDataPaths : setBaseData(p)
  \/ SetBaseDataDone
  \/ Quiet /\ BaseDataPaths # {} /\ clearBaseData

Spec == Init /\ [][Next]_vars


(***************************************************************************)
(* validateOutputPath as a function of its argument: pipelines with two    *)
(* roots, each asked to validate one candidate path.                       *)
(***************************************************************************)
MaxSegments == 3

PathSegments == {"..", ".", "a", "..cache", "x.html"}

\* The relative paths of up to MaxSegments segments.
RelativeCandidates ==
  {Join(q, "/") : q \in UNION {[1..n -> PathSegments] : n \in 1..MaxSegments}}

\* The candidates: relative, absolute from /, absolute below the working directory.
CandidatePaths ==
  {""} \cup RelativeCandidates
       \cup {"/" \o p : p \in RelativeCandidates}
       \cup {Cwd \o "/r/" \o p : p \in RelativeCandidates}

\* new GentlNode(rootDirectory) with rootDirectory "r" or ".".
InitPath ==
  /\ workload = "paths"
  /\ rootDir \in {PathResolve(Cwd, "r"), PathResolve(Cwd, ".")}
  /\ includeDir = ""
  /\ includeNotFoundHandler = FALSE
  /\ baseData = EmptyObj
  /\ heap = Store(<<>>, EmptyObj).heap
  /\ baseDataRef = Store(<<>>, EmptyObj).cell
  /\ returned = <<>>
  /\ fileContentCache = <<>>
  /\ dirs = InitDirs
  /\ files = <<>>
  /\ call = [c \in Slots |-> IdleCall]
  /\ baseOp = IdleBaseOp
  /\ baseHist = <<>>
  /\ ncalls = 0
  /\ nbase = 0
  /\ fnIn \in CandidatePaths
  /\ fnOut = <<>>

\* One call of validateOutputPath(fnIn).
ValidateCall ==
  /\ fnOut = <<>>
  /\ fnOut' = <<validateOutputPath(fnIn)>>
  /\ UNCHANGED <<memory, config, baseData, fileContentCache, dirs, files, call, baseOp, baseHist,
                 ncalls, nbase, fnIn>>

NextPath == ValidateCall

SpecPath == InitPath /\ [][NextPath]_vars

(***************************************************************************)
(* applyNamingRule as a function of its arguments.                         *)
(***************************************************************************)
MaxPathLen == 2

\* The data record of the naming contexts.
NamingRecord ==
  Obj([title |-> Str("Hi"), n |-> Num(0), b |-> Bool(FALSE), e |-> Str(""), z |-> Null,
       tags |-> Arr(<<Str("a"), Str("b")>>),
       meta |-> Obj([id |-> Str("m1"), n |-> Num(7), deep |-> Obj([k |-> Bool(TRUE)])])])

PathKeys ==
  {"title", "n", "b", "e", "z", "tags", "meta", "id", "deep", "k", "x", "length", "0",
   "constructor"}

\* The property paths of up to MaxPathLen keys.
PropertyPaths ==
  {Join(q, ".") : q \in UNION {[1..n -> PathKeys] : n \in 1..MaxPathLen}}

\* The file stems of the naming contexts ("" when no fileName is supplied).
FileStems == {"", "a", "a.b", "$&", "$$", "x$'", "{index}", "{data.title}", "{fileName}"}

FileNameRules == {"{fileName}.html", "{fileName}-{fileName}", "{index}-{fileName}.html"}

\* The arguments applyNamingRule is called with: rules with one {data.*}
\* token, and rules with {fileName} tokens.
NamingInputs ==
  {[rule |-> "p-{data." \o p \o "}.html", path |-> p, data |-> NamingRecord,
    fileName |-> "a", index |-> 0] : p \in PropertyPaths}
  \cup {[rule |-> r, path |-> "", data |-> NamingRecord, fileName |-> f, index |-> i]
          : r \in FileNameRules, f \in FileStems, i \in {0, 12}}

InitNaming ==
  /\ workload = "naming rules"
  /\ rootDir = PathResolve(Cwd, "r")
  /\ includeDir = ""
  /\ includeNotFoundHandler = FALSE
  /\ baseData = EmptyObj
  /\ heap = Store(<<>>, EmptyObj).heap
  /\ baseDataRef = Store(<<>>, EmptyObj).cell
  /\ returned = <<>>
  /\ fileContentCache = <<>>
  /\ dirs = InitDirs
  /\ files = <<>>
  /\ call = [c \in Slots |-> IdleCall]
  /\ baseOp = IdleBaseOp
  /\ baseHist = <<>>
  /\ ncalls = 0
  /\ nbase = 0
  /\ fnIn \in NamingInputs
  /\ fnOut = <<>>

\* One call of applyNamingRule(fnIn.rule, {index, data, fileName}).
NamingCall ==
  /\ fnOut = <<>>
  /\ fnOut' = <<applyNamingRule(fnIn.rule, [index |-> fnIn.index, data |-> fnIn.data,
                                            fileName |-> fnIn.fileName])>>
  /\ UNCHANGED <<memory, config, baseData, fileContentCache, dirs, files, call, baseOp, baseHist,
                 ncalls, nbase, fnIn>>

NextNaming == NamingCall

SpecNaming == InitNaming /\ [][NextNaming]_vars

(***************************************************************************)
(* The constructor on its own: one call of new GentlNode with every        *)
(* combination of a root directory and options.  Before the call there is  *)
(* no instance: its fields are empty and baseData is undefined.            *)
(***************************************************************************)
RootDirectories == {"", "r", "/w/r", "./r/", ".."}

IncludeDirectories == {"", "inc", "/w/inc", "./inc/", "../inc"}

ConstructorInputs ==
  [rootDirectory : RootDirectories, includeDirectory : IncludeDirectories,
   includeNotFoundHandler : BOOLEAN, logger : {"", "custom"},
   deleteTemplateTag : {"", "true", "false"}]

InitNew ==
  /\ workload = "construction"
  /\ rootDir = ""
  /\ includeDir = ""
  /\ includeNotFoundHandler = FALSE
  /\ baseData = Undefined
  /\ heap = <<>>
  /\ baseDataRef = Undefined
  /\ returned = <<>>
  /\ fileContentCache = <<>>
  /\ dirs = InitDirs
  /\ files = <<>>
  /\ call = [c \in Slots |-> IdleCall]
  /\ baseOp = IdleBaseOp
  /\ baseHist = <<>>
  /\ ncalls = 0
  /\ nbase = 0
  /\ fnIn \in ConstructorInputs
  /\ fnOut = <<>>

\* new GentlNode(fnIn.rootDirectory, fnIn): the fields are assigned when the
\* constructor does not throw.
New ==
  LET made == constructor(fnIn.rootDirectory, fnIn)
  IN  /\ fnOut = <<>>
      /\ fnOut' = <<made>>
      /\ IF made.ok
           THEN /\ rootDir' = made.rootDir
                /\ includeDir' = made.includeDir
                /\ includeNotFoundHandler' = made.includeNotFoundHandler
                /\ baseData' = made.baseData
                /\ heap' = Store(heap, made.baseData).heap
                /\ baseDataRef' = Store(heap, made.baseData).cell
                /\ fileContentCache' = made.fileContentCache
           ELSE UNCHANGED <<rootDir, includeDir, includeNotFoundHandler, baseData,
                            heap, baseDataRef, fileContentCache>>
      /\ UNCHANGED <<workload, dirs, files, call, baseOp, baseHist, ncalls, nbase, fnIn, returned>>

NextNew == New

SpecNew == InitNew /\ [][NextNew]_vars

(***************************************************************************)
(* A caller that keeps the records getBaseData returns and assigns to      *)
(* them, between base-data operations and generateFile calls.  The engine  *)
(* and the file system do not fail here.                                   *)
(***************************************************************************)
InitCopy ==
  /\ workload = "copy"
  /\ rootDir = PathResolve(Cwd, RootDirectoryGiven)
  /\ includeDir = ""
  /\ includeNotFoundHandler = FALSE
  /\ baseData = EmptyObj
  /\ heap = Store(<<>>, EmptyObj).heap
  /\ baseDataRef = Store(<<>>, EmptyObj).cell
  /\ returned = <<>>
  /\ fileContentCache = <<>>
  /\ dirs = InitDirs
  /\ files = <<>>
  /\ call = [c \in Slots |-> IdleCall]
  /\ baseOp = IdleBaseOp
  /\ baseHist = <<>>
  /\ ncalls = 0
  /\ nbase = 0
  /\ fnIn = <<>>
  /\ fnOut = <<>>

\* What the caller assigns.
CallerValue == Str("mine")

NextCopy ==
  \/ Quiet /\ \E p \in BaseDataPaths : setBaseData(p)
  \/ SetBaseDataDone
  \/ Quiet /\ clearBaseData
  \/ Quiet /\ getBaseData
  \/ Quiet /\ \E i \in 1..Len(returned) : CallerSetsProperty(i, "site", CallerValue)
  \/ Quiet /\ \E i \in 1..Len(returned) : CallerSetsNestedProperty(i, "meta", "v", CallerValue)
  \/ Quiet /\ \E c \in Slots, a \in GenerateFileArgs : generateFile(c, a[1], a[2], a[3])
  \/ \E c \in Slots : ReadTemplateDone(c)
  \/ \E c \in Slots : ReadDataDone(c)
  \/ \E c \in Slots : buildIncludeIo(c)
  \/ \E c \in Slots : EngineReturn(c)
  \/ \E c \in Slots : MkdirDone(c, TRUE)
  \/ \E c \in Slots : WriteDone(c, TRUE)

SpecCopy == InitCopy /\ [][NextCopy]_vars

(***************************************************************************)
(* A caller that does not await a generation call before it calls          *)
(* setBaseData or clearBaseData: the base-data operations run while the    *)
(* generation call is suspended at one of its awaits.  The engine and the  *)
(* file system do not fail here.                                           *)
(***************************************************************************)
InitOverlap ==
  /\ workload = "overlap"
  /\ rootDir = PathResolve(Cwd, RootDirectoryGiven)
  /\ includeDir = ""
  /\ includeNotFoundHandler = FALSE
  /\ baseData = EmptyObj
  /\ heap = Store(<<>>, EmptyObj).heap
  /\ baseDataRef = Store(<<>>, EmptyObj).cell
  /\ returned = <<>>
  /\ fileContentCache = <<>>
  /\ dirs = InitDirs
  /\ files = <<>>
  /\ call = [c \in Slots |-> IdleCall]
  /\ baseOp = IdleBaseOp
  /\ baseHist = <<>>
  /\ ncalls = 0
  /\ nbase = 0
  /\ fnIn = <<>>
  /\ fnOut = <<>>

NextOverlap ==
  \/ \E c \in Slots, a \in GenerateFileArgs : generateFile(c, a[1], a[2], a[3])
  \/ \E c \in Slots, a \in GenerateFilesArgs : generateFiles(c, a[1], a[2], a[3], a[4])
  \/ \E c \in Slots : ReadTemplateDone(c)
  \/ \E c \in Slots : ReadDataDone(c)
  \/ \E c \in Slots : ReadDirDone(c)
  \/ \E c \in Slots : buildIncludeIo(c)
  \/ \E c \in Slots : ReadItemDone(c)
  \/ \E c \in Slots : EngineReturn(c)
  \/ \E c \in Slots : MkdirDone(c, TRUE)
  \/ \E c \in Slots : WriteDone(c, TRUE)
  \/ \E p \in BaseDataPaths : setBaseData(p)
  \/ SetBaseDataDone
  \/ clearBaseData

SpecOverlap == InitOverlap /\ [][NextOverlap]_vars

(***************************************************************************)
(* Templates whose includes form a chain, a loop (a fragment that includes *)
(* itself) and a ring (two fragments that include each other).  Every file *)
(* read and every engine invocation returns: the steps of a call are       *)
(* weakly fair and nothing fails.                                          *)
(***************************************************************************)
InitCycle ==
  /\ workload = "cycle"
  /\ rootDir = PathResolve(Cwd, RootDirectoryGiven)
  /\ includeDir = constructorIncludeDir(RootDirectoryGiven, IncludeDirectoryOf("cycle"))
  /\ includeNotFoundHandler = FALSE
  /\ baseData = EmptyObj
  /\ heap = Store(<<>>, EmptyObj).heap
  /\ baseDataRef = Store(<<>>, EmptyObj).cell
  /\ returned = <<>>
  /\ fileContentCache = <<>>
  /\ dirs = InitDirs
  /\ files = <<>>
  /\ call = [c \in Slots |-> IdleCall]
  /\ baseOp = IdleBaseOp
  /\ baseHist = <<>>
  /\ ncalls = 0
  /\ nbase = 0
  /\ fnIn = <<>>
  /\ fnOut = <<>>

\* The state after new GentlNode(rootDirectory, {includeDirectory}) over an
\* include tree that is readable throughout, one with an entry of the root
\* that cannot be inspected, one with such an entry in a subdirectory, and
\* one with a subdirectory that cannot be listed.
InitCatalog ==
  /\ workload \in {"whole", "partial", "nested", "locked"}
  /\ rootDir = PathResolve(Cwd, RootDirectoryGiven)
  /\ includeDir = constructorIncludeDir(RootDirectoryGiven, IncludeDirectoryOf(workload))
  /\ includeNotFoundHandler = FALSE
  /\ baseData = EmptyObj
  /\ heap = Store(<<>>, EmptyObj).heap
  /\ baseDataRef = Store(<<>>, EmptyObj).cell
  /\ returned = <<>>
  /\ fileContentCache = <<>>
  /\ dirs = InitDirs
  /\ files = <<>>
  /\ call = [c \in Slots |-> IdleCall]
  /\ baseOp = IdleBaseOp
  /\ baseHist = <<>>
  /\ ncalls = 0
  /\ nbase = 0
  /\ fnIn = <<>>
  /\ fnOut = <<>>

\* The steps a started call takes when what it awaits returns.
CallSteps ==
  \/ \E c \in Slots : ReadTemplateDone(c)
  \/ \E c \in Slots : ReadDataDone(c)
  \/ \E c \in Slots : buildIncludeIo(c)
  \/ \E c \in Slots : includeIo(c)
  \/ \E c \in Slots : IncludeReadDone(c)
  \/ \E c \in Slots : IncludeReturn(c)
  \/ \E c \in Slots : EngineReturn(c)
  \/ \E c \in Slots : MkdirDone(c, TRUE)
  \/ \E c \in Slots : WriteDone(c, TRUE)

NextCycle ==
  \/ Quiet /\ \E c \in Slots, a \in GenerateFileArgs : generateFile(c, a[1], a[2], a[3])
  \/ CallSteps

\* A call is suspended at an await: the states in which CallSteps is enabled.
CallPending ==
  \E c \in Slots :
    call[c].pc \in {"readTemplate", "readData", "buildIncludeIo", "engine", "includeRead",
                    "mkdir", "write"}

\* WF_vars(CallSteps), with the enabling condition written out.
FairCallSteps == []<>(~CallPending) \/ []<><<CallSteps>>_vars

SpecCycle == InitCycle /\ [][NextCycle]_vars /\ FairCallSteps

SpecCatalog == InitCatalog /\ [][NextCycle]_vars

\* Two callers of one instance that do not wait for each other: a call may
\* start while the other is suspended at an await.
InitInterleave ==
  /\ workload = "interleave"
  /\ rootDir = PathResolve(Cwd, RootDirectoryGiven)
  /\ includeDir = constructorIncludeDir(RootDirectoryGiven, IncludeDirectoryOf("interleave"))
  /\ includeNotFoundHandler = FALSE
  /\ baseData = EmptyObj
  /\ heap = Store(<<>>, EmptyObj).heap
  /\ baseDataRef = Store(<<>>, EmptyObj).cell
  /\ returned = <<>>
  /\ fileContentCache = <<>>
  /\ dirs = InitDirs
  /\ files = <<>>
  /\ call = [c \in Slots |-> IdleCall]
  /\ baseOp = IdleBaseOp
  /\ baseHist = <<>>
  /\ ncalls = 0
  /\ nbase = 0
  /\ fnIn = <<>>
  /\ fnOut = <<>>

NextInterleave ==
  \/ \E c \in Slots, a \in GenerateFileArgs : generateFile(c, a[1], a[2], a[3])
  \/ CallSteps

SpecInterleave == InitInterleave /\ [][NextInterleave]_vars

(***************************************************************************)
(* Properties.                                                             *)
(***************************************************************************)
\* The segments of a is a prefix of the segments of b: b is a or lies below a.
AtOrBelow(a, b) ==
  LET sa == SegsOf(a)
      sb == SegsOf(b)
  IN  Len(sa) <= Len(sb) /\ SubSeq(sb, 1, Len(sa)) = sa

\* The first segment of a relative path is the parent directory.
BeginsWithParentSegment(rel) == rel # "" /\ Head(Split(rel, "/")) = ".."

\* C1: every file a generation call writes lies at or below the root; a call
\* whose write target resolves outside the root fails without writing it and
\* without creating a directory there.
C1_WritesStayUnderRoot ==
  /\ \A p \in DOMAIN files : AtOrBelow(rootDir, p)
  /\ \A c \in Slots :
       /\ \A i \in 1..Len(call[c].writes) : AtOrBelow(rootDir, call[c].writes[i].path)
       /\ \A d \in call[c].created : AtOrBelow(rootDir, d)

\* C2: validateOutputPath rejects exactly the candidates whose path relative
\* to the root begins with a whole ".." segment or is absolute; every other
\* candidate, "..cache/x" included, is accepted and resolved against the root.
C2_RejectsExactlyEscapingPaths ==
  fnOut # <<>> =>
    LET resolvedPath == PathResolve(rootDir, fnIn)
        relativePath == PathRelative(rootDir, resolvedPath)
        escapes      == BeginsWithParentSegment(relativePath) \/ PathIsAbsolute(relativePath)
    IN  /\ fnOut[1].ok = ~escapes
        /\ fnOut[1].ok => fnOut[1].path = resolvedPath
        /\ AtOrBelow(rootDir, resolvedPath) => fnOut[1].ok

\* The top-level engine invocations of a call, in order.
TopCalls(cl) == SelectSeq(cl.engineCalls, LAMBDA e : e.top)

\* The data files a call read, in order.
DataReads(cl) ==
  SelectSeq(cl.reads, LAMBDA p : AtOrBelow(PathResolve(Cwd, cl.dataPath), p))

\* M holds every key of A or B, B's value where B has the key, else A's;
\* values are taken whole.
MergedBaseWins(A, B, M) ==
  /\ M.t = "obj"
  /\ DOMAIN M.o = DOMAIN A.o \cup DOMAIN B.o
  /\ \A k \in DOMAIN B.o : M.o[k] = B.o[k]
  /\ \A k \in DOMAIN A.o \ DOMAIN B.o : M.o[k] = A.o[k]

\* C3: the data handed to the engine for an item is the shallow merge of the
\* item's object A and the base data B in force: every key of either, B's
\* value on a shared key, nested objects replaced whole.
C3_BaseDataWinsShallowMerge ==
  \A c \in Slots :
    LET cl == call[c]
        tc == TopCalls(cl)
    IN  /\ Len(tc) <= Len(cl.items)
        /\ \A i \in 1..Len(cl.items) :
             /\ ~Finished(cl) => cl.items[i].baseData = baseData
             /\ cl.items[i].fileData = JsonParse(ReadFileText(DataReads(cl)[i]))
        /\ \A i \in 1..Len(tc) :
             (cl.items[i].fileData.t = "obj" /\ cl.items[i].baseData.t = "obj") =>
               MergedBaseWins(cl.items[i].fileData, cl.items[i].baseData, tc[i].data)

C3_NestedValueReplacedWhole ==
  \E c \in Slots : \E i \in 1..Len(TopCalls(call[c])) :
    LET A == call[c].items[i].fileData
        B == call[c].items[i].baseData
        M == TopCalls(call[c])[i].data
    IN  /\ A.t = "obj" /\ B.t = "obj"
        /\ "meta" \in DOMAIN A.o /\ "meta" \in DOMAIN B.o
        /\ A.o["meta"] # B.o["meta"]
        /\ M.o["meta"] = B.o["meta"]
        /\ "title" \in DOMAIN A.o \ DOMAIN B.o
        /\ M.o["title"] = A.o["title"]

\* C4: a generateFiles call that fails while processing item i has written
\* exactly the outputs of items 0..i-1, which stay in place, has read no data
\* file after item i and has rendered none; the items go in order, each
\* written before the next is read.
C4_BatchStopsAtFirstFailure ==
  \A c \in Slots :
    LET cl == call[c]
        i  == cl.index
    IN  cl.kind = "generateFiles" =>
          /\ Len(cl.writes) = i
          /\ \A j \in 1..Len(cl.writes) :
               /\ cl.writes[j].path = cl.items[j].outputPath
               /\ cl.writes[j].path \in DOMAIN files
          /\ (cl.pc = "failed" /\ DataReads(cl) # <<>>) =>
               /\ Len(DataReads(cl)) = i + 1
               /\ DataReads(cl)[i + 1] = PathJoin(PathResolve(Cwd, cl.dataPath), cl.jsonFiles[i + 1])
               /\ Len(TopCalls(cl)) <= i + 1
               /\ Len(cl.generatedFiles) = i
               /\ cl.error.wrapped = "Failed to generate files"

C4_SecondOfThreeMalformed ==
  \E c \in Slots :
    /\ call[c].kind = "generateFiles"
    /\ call[c].pc = "failed"
    /\ call[c].error.cause = "SyntaxError"
    /\ Len(call[c].jsonFiles) = 3
    /\ call[c].index = 1
    /\ Len(call[c].writes) = 1
    /\ call[c].writes[1].path \in DOMAIN files

\* How often a call read path.
ReadsOf(cl, path) == Cardinality({i \in 1..Len(cl.reads) : cl.reads[i] = path})

\* The engine invocations a call made for an include key.
ResolutionsOf(cl, key) ==
  {i \in 1..Len(cl.engineCalls) : ~cl.engineCalls[i].top /\ cl.engineCalls[i].key = key}

\* C5: within one call, a catalog key resolved any number of times is read
\* from its file exactly once, and every resolution renders the file's raw
\* content with the scoped data of that resolution.
C5_OneReadPerKeyPerResolver ==
  \A c \in Slots :
    LET cl == call[c]
    IN  \A k \in DOMAIN cl.includeFileMap :
          ResolutionsOf(cl, k) # {} =>
            /\ ReadsOf(cl, cl.includeFileMap[k]) = 1
            /\ \A i \in ResolutionsOf(cl, k) :
                 cl.engineCalls[i].html = ReadFileText(cl.includeFileMap[k])

\* The include sites of the texts a call gave to the engine.
SitesOf(cl) ==
  UNION {{IncludesOf(cl.engineCalls[i].html)[j] : j \in 1..Len(IncludesOf(cl.engineCalls[i].html))}
           : i \in 1..Len(cl.engineCalls)}

\* C6: a key without a catalog entry goes to the handler, when one is
\* configured, with exactly the key and the scoped data of the site, and the
\* handler's result is what the resolver returns; without a handler the
\* resolution fails, an error is logged, the call fails and the item that
\* was being rendered is not written.
C6_MissingIncludeHandlerOrFailure ==
  \A c \in Slots :
    LET cl == call[c]
    IN  /\ \A i \in 1..Len(cl.handlerCalls) :
             /\ includeNotFoundHandler
             /\ cl.handlerCalls[i].key \notin DOMAIN cl.includeFileMap
             /\ \E s \in SitesOf(cl) :
                  cl.handlerCalls[i] = [key |-> s.key, baseData |-> s.scoped]
        /\ \A i \in 1..Len(cl.includeResults) :
             LET r == cl.includeResults[i]
             IN  r.key \notin DOMAIN cl.includeFileMap =>
                   /\ includeNotFoundHandler
                   /\ r.from = "handler"
                   /\ r.html = HandlerResult(r.key, r.data)
                   /\ \E j \in 1..Len(cl.handlerCalls) :
                        cl.handlerCalls[j] = [key |-> r.key, baseData |-> r.data]
        /\ ~includeNotFoundHandler =>
             /\ cl.handlerCalls = <<>>
             /\ \A f \in 1..Len(cl.stack) : \A j \in 1..(cl.stack[f].idx - 1) :
                  IncludesOf(cl.stack[f].html)[j].key \in DOMAIN cl.includeFileMap
             /\ (cl.hasIncludeIo /\ cl.writes # <<>>) =>
                  \A s \in SitesOf(cl) : s.key \in DOMAIN cl.includeFileMap
        /\ cl.error.cause = IncludeNotFoundMessage =>
             /\ ~includeNotFoundHandler
             /\ cl.pc = "failed"
             /\ \E i \in 1..Len(cl.logs) : cl.logs[i] = LogEntry("error", IncludeNotFoundMessage)
             /\ Len(cl.writes) = cl.index
             /\ \E s \in SitesOf(cl) : s.key \notin DOMAIN cl.includeFileMap

C6_HandlerResultReturned ==
  \E c \in Slots :
    /\ call[c].pc = "done"
    /\ call[c].handlerCalls = <<[key |-> "nope.html", baseData |-> Obj([title |-> Str("one")])]>>
    /\ \E i \in 1..Len(call[c].includeResults) :
         /\ call[c].includeResults[i].from = "handler"
         /\ call[c].includeResults[i].html = "<X/>"

\* The base data a history of setBaseData and clearBaseData calls leaves.
RECURSIVE ExpectedBaseData(_)
ExpectedBaseData(h) ==
  IF h = <<>> THEN EmptyObj
  ELSE LET e == h[Len(h)]
       IN  IF e.op = "clearBaseData" THEN EmptyObj
           ELSE IF e.ok THEN JsonParse(ReadFileText(PathResolve(Cwd, e.path)))
           ELSE ExpectedBaseData(SubSeq(h, 1, Len(h) - 1))

\* C7: the base data is the parsed content of the file of the last
\* successful setBaseData, replaced whole and never merged with what was
\* there; clearBaseData makes it the empty object; it starts empty and a
\* failed setBaseData leaves it as it was.
C7_BaseDataReplacedWhole ==
  baseOp.pc = "idle" => baseData = ExpectedBaseData(baseHist)

C7_SecondLoadDropsFirst ==
  /\ Len(baseHist) = 2
  /\ baseHist[1] = [op |-> "setBaseData", path |-> "base/bye.json", ok |-> TRUE]
  /\ baseHist[2] = [op |-> "setBaseData", path |-> "base/site.json", ok |-> TRUE]
  /\ "title" \notin DOMAIN baseData.o
  /\ "site" \in DOMAIN baseData.o

\* The failures of generateFile that come before its mkdir.
FailuresBeforeMkdir ==
  {"Output path must be within the output root directory",
   "ENOENT: template", "ENOENT: data", "SyntaxError",
   "ENOENT: include", IncludeNotFoundMessage, "EngineError"}

\* A call of generateFile has written nothing and created no directory.
LeftNothing(cl) ==
  /\ cl.writes = <<>>
  /\ cl.mkdirs = <<>>
  /\ cl.created = {}
  /\ ncalls = 1 => (files = <<>> /\ dirs = InitDirs)

\* C8 (amended): a generateFile call that fails at validation, template
\* read, data read or parse, or in the engine throws an error wrapped as
\* "Failed to generate file" with no output file written and no directory
\* created; the output directory is created only after the engine has
\* succeeded, so a failing write leaves no file but may leave new directories.
C8_FailureBeforeMkdirLeavesNothing ==
  \A c \in Slots :
    LET cl == call[c]
    IN  cl.kind = "generateFile" =>
          /\ (cl.pc = "failed" /\ cl.error.cause \in FailuresBeforeMkdir) => LeftNothing(cl)
          /\ cl.pc = "failed" =>
               /\ cl.error.wrapped = "Failed to generate file"
               /\ cl.error.cause \in FailuresBeforeMkdir \cup {"mkdir failed", "writeFile failed"}
               /\ cl.writes = <<>>
               /\ cl.logs[Len(cl.logs)].level = "error"
               /\ cl.logs[Len(cl.logs)].message = "Failed to generate file"
          /\ cl.mkdirs # <<>> =>
               /\ Len(TopCalls(cl)) = 1
               /\ cl.stack = <<>>
               /\ cl.result = Rendered(cl.html, cl.data)
               /\ cl.mkdirs = <<PathDirname(cl.resolvedOutput)>>
          /\ cl.created # {} => cl.pc \in {"write", "done", "failed"}
          /\ cl.writes # <<>> => cl.pc = "done"

\* C8 as stated: a failure of the include-resolver build aborts the call as
\* the other failures before the write do.
C8_BuildFailureAborts ==
  /\ C8_FailureBeforeMkdirLeavesNothing
  /\ \A c \in Slots :
       LET cl == call[c]
       IN  (/\ cl.kind = "generateFile"
            /\ \E i \in 1..Len(cl.logs) :
                 cl.logs[i] = LogEntry("warn", "Could not read include directory"))
             => (cl.pc # "done" /\ cl.writes = <<>> /\ cl.mkdirs = <<>>)

C8_FailedWriteLeavesDirectory ==
  \E c \in Slots :
    /\ call[c].kind = "generateFile"
    /\ call[c].pc = "failed"
    /\ call[c].error.cause = "writeFile failed"
    /\ call[c].created = {"/w/r/a"}
    /\ "/w/r/a" \in dirs
    /\ files = <<>>

HasJsonExtension(name) ==
  /\ Len(name) > 5
  /\ LET e == SubSeq(name, Len(name) - 4, Len(name))
     IN  /\ CharAt(e, 1) = "."
         /\ CharAt(e, 2) \in {"j", "J"}
         /\ CharAt(e, 3) \in {"s", "S"}
         /\ CharAt(e, 4) \in {"o", "O"}
         /\ CharAt(e, 5) \in {"n", "N"}

DecimalDigits == <<"0", "1", "2", "3", "4", "5", "6", "7", "8", "9">>

\* C10: generateFiles processes exactly the entries of the data directory
\* whose extension is .json in any letter case, in listing order; {index} is
\* the 0-based position among them in decimal, {fileName} the entry's name
\* without its extension; other entries do not shift the indices.
C10_SelectsJsonEntriesInOrder ==
  \A c \in Slots :
    LET cl == call[c]
    IN  (cl.kind = "generateFiles" /\ cl.dataFiles # <<>>) =>
          /\ cl.jsonFiles = SelectSeq(cl.dataFiles, HasJsonExtension)
          /\ \A i \in 1..Len(cl.items) :
               LET it == cl.items[i]
               IN  /\ it.jsonFile = cl.jsonFiles[i]
                   /\ it.index = i - 1
                   /\ it.fileName = SubSeq(it.jsonFile, 1, Len(it.jsonFile) - 5)
                   /\ cl.namingRule = "{index}.html" =>
                        it.filename = DecimalDigits[i] \o ".html"
                   /\ cl.namingRule = "{fileName}.html" =>
                        it.filename = it.fileName \o ".html"

C10_UpperCaseEntryAfterOtherFile ==
  \E c \in Slots :
    /\ call[c].dataFiles = <<"a.json", "notes.txt", "B.JSON">>
    /\ call[c].namingRule = "{fileName}.html"
    /\ Len(call[c].items) = 2
    /\ call[c].items[2].index = 1
    /\ call[c].items[2].jsonFile = "B.JSON"
    /\ call[c].items[2].filename = "B.html"

NoJsonFilesMessage == "No JSON files found in the specified data directory"

\* C11: when no entry of the data directory has a .json extension,
\* generateFiles fails with the no-data-files error, having created no
\* directory, listed no include directory, built no resolver, called no
\* engine and written no file.
C11_NoDataFilesFailsFirst ==
  \A c \in Slots :
    LET cl == call[c]
    IN  cl.kind = "generateFiles" =>
          /\ (cl.dataFiles # <<>> /\ SelectSeq(cl.dataFiles, HasJsonExtension) = <<>>) =>
               /\ cl.pc = "failed"
               /\ cl.error.cause = NoJsonFilesMessage
          /\ cl.error.cause = NoJsonFilesMessage =>
               /\ cl.pc = "failed"
               /\ cl.error.wrapped = "Failed to generate files"
               /\ SelectSeq(cl.dataFiles, HasJsonExtension) = <<>>
               /\ cl.mkdirs = <<>> /\ cl.created = {}
               /\ cl.listed = <<>> /\ ~cl.hasIncludeIo
               /\ cl.engineCalls = <<>>
               /\ cl.writes = <<>> /\ cl.generatedFiles = <<>>
               /\ DataReads(cl) = <<>>
               /\ ncalls = 1 => (files = <<>> /\ dirs = InitDirs)

C11_EmptySelectionWithIncludeDirectory ==
  \E c \in Slots :
    /\ call[c].kind = "generateFiles"
    /\ call[c].pc = "failed"
    /\ call[c].error.cause = NoJsonFilesMessage
    /\ call[c].dataFiles = <<"notes.txt", ".json">>
    /\ includeDir # ""

\* The value the keys lead to in a record: Undefined when a key is missing
\* or the value reached before the last key is not a record.
RECURSIVE LookupInRecord(_, _)
LookupInRecord(v, keys) ==
  IF keys = <<>> THEN v
  ELSE IF v.t # "obj" THEN Undefined
  ELSE IF Head(keys) \notin DOMAIN v.o THEN Undefined
  ELSE LookupInRecord(v.o[Head(keys)], Tail(keys))

\* The text of a leaf: decimal for a number, true / false for a boolean,
\* "undefined" for null and for an absent value.
LeafText(v) ==
  CASE v.t = "str"  -> v.s
    [] v.t = "num"  -> (IF v.n = 0 THEN "0" ELSE IF v.n = 7 THEN "7" ELSE "?")
    [] v.t = "bool" -> (IF v.n = 1 THEN "true" ELSE "false")
    [] OTHER -> "undefined"

\* C12: a {data.<path>} token becomes the text of the value the keys of
\* <path> lead to in the data record; "undefined" when a key is missing, when
\* a value that is not a record is reached before the path ends, or when the
\* leaf is null; 0 gives "0" and false gives "false".
C12_DataTokenLooksUpRecordPath ==
  (fnOut # <<>> /\ fnIn.path # "") =>
    LET leaf == LookupInRecord(fnIn.data, Split(fnIn.path, "."))
    IN  (leaf.t \in {"num", "bool", "null", "undef"} \/ (leaf.t = "str" /\ leaf.s # "")) =>
          fnOut[1] = "p-" \o LeafText(leaf) \o ".html"

\* The file name a rule of FileNameRules gives when {fileName} stands for f
\* and {index} for the decimal text of the index.
ExpectedFileName(rule, f, indexText) ==
  CASE rule = "{fileName}.html" -> f \o ".html"
    [] rule = "{fileName}-{fileName}" -> f \o "-" \o f
    [] rule = "{index}-{fileName}.html" -> indexText \o "-" \o f \o ".html"

\* C13: every {fileName} token is replaced by the supplied fileName
\* character for character, whatever it contains; when none is supplied the
\* text {fileName} stays.
C13_FileNameTokenVerbatim ==
  (fnOut # <<>> /\ fnIn.path = "") =>
    fnOut[1] = ExpectedFileName(fnIn.rule,
                                IF fnIn.fileName = "" THEN "{fileName}" ELSE fnIn.fileName,
                                IF fnIn.index = 0 THEN "0" ELSE "12")

\* Relative paths that may or may not name something under an include root.
CandidateKeys ==
  {"constructor", "h.html", "h", "n.html", "n", "nope.html", "sub", "sub/d.html", "sub/d",
   "d.html", "sub/sub", "header"}

NoResolverEntries ==
  {LogEntry("debug", "No include directory specified"),
   LogEntry("warn", "Could not read include directory")}

\* Whether the call has come back from buildIncludeIo.
PastBuild(cl) ==
  \/ cl.engineCalls # <<>>
  \/ cl.mkdirs # <<>>
  \/ cl.pc = "mkdir"

\* C15: when no include directory is configured, or the configured one cannot
\* be listed, a generation call does not fail for that reason: no resolver is
\* built, the engine runs without one (no include is resolved, no include
\* file is read), the handler is never invoked, the only entry logged for it
\* is one debug or warn entry, every error entry belongs to a failure of
\* another step, and a call that ends normally has written its output.
C15_NoIncludeDirectoryDisablesResolver ==
  \A c \in Slots :
    LET cl == call[c]
    IN  (includeDir = "" \/ ReadDir(includeDir) = <<ENOENT>>) =>
          /\ ~cl.hasIncludeIo
          /\ cl.includeFileMap = <<>>
          /\ cl.handlerCalls = <<>>
          /\ cl.includeResults = <<>>
          /\ \A i \in 1..Len(cl.engineCalls) : cl.engineCalls[i].top
          /\ \A i \in 1..Len(cl.reads) :
               includeDir = "" \/ ~AtOrBelow(includeDir, cl.reads[i])
          /\ \A i \in 1..Len(cl.logs) :
               \/ cl.logs[i] \in NoResolverEntries
               \/ cl.logs[i].level = "error" /\ cl.pc = "failed"
          /\ PastBuild(cl) =>
               /\ Cardinality({i \in 1..Len(cl.logs) : cl.logs[i] \in NoResolverEntries}) = 1
               /\ (includeDir = "")
                    = (\E i \in 1..Len(cl.logs) : cl.logs[i].level = "debug")
          /\ cl.pc = "failed" =>
               cl.error.cause \notin {"Could not read include directory", "ENOENT: include",
                                      IncludeNotFoundMessage}
          /\ cl.pc = "done" =>
               /\ cl.writes # <<>>
               /\ \A i \in 1..Len(cl.writes) : cl.writes[i].path \in DOMAIN files

\* C15 witness: the include directory does not exist and a handler is
\* configured; a template with an include site is generated and written, with
\* a warning and without a call of the handler.
C15_MissingDirectoryStillWrites ==
  \E c \in Slots :
    /\ includeDir = "/w/gone"
    /\ includeNotFoundHandler
    /\ call[c].pc = "done"
    /\ call[c].templatePath = "t/miss.html"
    /\ call[c].listed = <<"/w/gone">>
    /\ call[c].logs = <<LogEntry("warn", "Could not read include directory")>>
    /\ call[c].handlerCalls = <<>>
    /\ "/w/r/page.html" \in DOMAIN files


\* The directory an includeDirectory option names when a relative one is
\* taken from the directory base.
IncludeDirectoryFrom(base, includeDirectory) ==
  IF PathIsAbsolute(includeDirectory) THEN includeDirectory
  ELSE base \o "/" \o includeDirectory

\* C16 as stated: a relative includeDirectory is resolved relative to the
\* output root and an absolute one is used as given, so a catalog build lists
\* that directory.
C16_IncludeDirectoryRelativeToRoot ==
  IncludeDirectoryOf(workload) # "" =>
    /\ includeDir = IncludeDirectoryFrom(rootDir, IncludeDirectoryOf(workload))
    /\ \A c \in Slots :
         call[c].listed # <<>> =>
           call[c].listed = <<IncludeDirectoryFrom(rootDir, IncludeDirectoryOf(workload))>>

\* C16 amended: a relative includeDirectory is resolved relative to the
\* working directory of the process and an absolute one is used as given; a
\* catalog build lists that directory, and the files the resolver reads lie
\* under it.
C16_IncludeDirectoryRelativeToCwd ==
  IncludeDirectoryOf(workload) # "" =>
    LET dir == IncludeDirectoryFrom(Cwd, IncludeDirectoryOf(workload))
    IN  /\ includeDir = dir
        /\ \A c \in Slots :
             /\ call[c].listed # <<>> => call[c].listed = <<dir>>
             /\ \A k \in DOMAIN call[c].includeFileMap :
                  AtOrBelow(dir, call[c].includeFileMap[k])

\* C16 witness: the pipeline was constructed with root r and include
\* directory inc, both relative; a finished call listed /w/inc, beside the
\* root /w/r, and rendered a fragment read from it.
C16_RelativeIncludeDirectoryListed ==
  \E c \in Slots :
    /\ IncludeDirectoryOf(workload) = "inc"
    /\ rootDir = "/w/r"
    /\ call[c].pc = "done"
    /\ call[c].listed = <<"/w/inc">>
    /\ "/w/inc/h.html" \in {call[c].reads[i] : i \in 1..Len(call[c].reads)}


ReturnedRecords(h) == [i \in 1..Len(returned) |-> Materialize(h, returned[i])]

\* C17: getBaseData returns a defensive copy.  A step in which the caller
\* assigns to a returned record, at the top level or inside a nested value,
\* leaves the base data that generation calls merge as it was; and a step
\* that completes setBaseData or clearBaseData leaves every record returned
\* earlier as it was.
C17_GetBaseDataDefensiveCopy ==
  [][/\ (baseHist' = baseHist /\ returned' = returned) => baseData' = baseData
     /\ baseHist' # baseHist => ReturnedRecords(heap') = ReturnedRecords(heap)]_vars


\* Every item the call has merged so far was merged with the base data in
\* effect when the call started.
MergedWithBaseDataAtStart(cl) ==
  /\ \A i \in 1..Len(cl.items) : cl.items[i].baseData = cl.baseDataAtStart
  /\ \A i \in 1..Len(TopCalls(cl)) :
       TopCalls(cl)[i].data = mergeData(cl.items[i].fileData, cl.baseDataAtStart)

\* C18: setBaseData and clearBaseData affect only the generation calls that
\* start after them.  A call that has started, a batch suspended between two
\* items included, merges every item with the base data in effect when it
\* started; and a step that completes a base-data operation changes no file
\* written and no result of a call that has ended.
C18_BaseDataFixedAtCallStart ==
  [][/\ \A c \in Slots : MergedWithBaseDataAtStart(call'[c])
     /\ baseHist' # baseHist =>
          /\ files' = files
          /\ \A c \in Slots : Finished(call[c]) => call'[c] = call[c]]_vars


\* The arguments of the call's method, as the claim lists them.
ArgumentNames(cl) ==
  IF cl.kind = "generateFile" THEN {"templatePath", "dataPath", "outputPath"}
  ELSE {"templatePath", "dataPath", "outputDir", "namingRule"}

\* The call failed and the last entry it logged is an error entry of its
\* method.
LoggedBeforeThrow(cl) ==
  /\ cl.logs # <<>>
  /\ cl.logs[Len(cl.logs)].level = "error"
  /\ cl.logs[Len(cl.logs)].message = MethodPrefix(cl.kind)
  /\ cl.error.wrapped = MethodPrefix(cl.kind)
  /\ cl.error.cause # ""

\* The call failed while it processed an item of a batch.
FailedAtItem(cl) ==
  /\ cl.kind = "generateFiles"
  /\ cl.pc = "failed"
  /\ cl.jsonFiles # <<>>
  /\ cl.mkdirs # <<>>
  /\ cl.error.cause # "mkdir failed"

\* C20 as stated: a failed call logged at error before it threw a
\* method-scoped error, and the inputs travel with the failure: the
\* arguments of the method and, when an item of a batch failed, the index of
\* that item.
C20_FailureCarriesInputsAndIndex ==
  \A c \in Slots :
    LET cl   == call[c]
        data == cl.logs[Len(cl.logs)].data
    IN  cl.pc = "failed" =>
          /\ LoggedBeforeThrow(cl)
          /\ ArgumentNames(cl) \subseteq DOMAIN data
          /\ FailedAtItem(cl) => "index" \in DOMAIN data

\* The steps of a call that ended normally all succeeded.
NothingSwallowed(cl) ==
  /\ cl.error = NoError
  /\ \A i \in 1..Len(cl.logs) : cl.logs[i].level # "error"
  /\ \A i \in 1..Len(cl.reads) :
       /\ ReadFileText(cl.reads[i]) # ENOENT
       /\ AtOrBelow(PathResolve(Cwd, cl.dataPath), cl.reads[i]) =>
            ~JsonParseThrows(ReadFileText(cl.reads[i]))
  /\ Len(cl.writes) = (IF cl.kind = "generateFile" THEN 1 ELSE Len(cl.jsonFiles))
  /\ Len(cl.writes) > 0
  /\ \A i \in 1..Len(cl.includeResults) :
       cl.includeResults[i].key \in DOMAIN cl.includeFileMap \/ includeNotFoundHandler

\* C20 amended: a failure inside generateFile or generateFiles is logged at
\* error before it propagates, in an entry whose context holds exactly the
\* arguments of the method (for a batch the template path, the data
\* directory, the output directory and the naming rule, and no index); the
\* error thrown is the method's prefix and the text of the cause.  A failed
\* setBaseData logs an error entry with its path and throws likewise.  A call
\* that ends normally has had no failure.
C20_FailureLoggedThenWrapped ==
  /\ \A c \in Slots :
       LET cl == call[c]
       IN  /\ cl.pc = "failed" =>
                /\ LoggedBeforeThrow(cl)
                /\ cl.logs[Len(cl.logs)].data = CatchContext(cl)
                /\ DOMAIN cl.logs[Len(cl.logs)].data = ArgumentNames(cl)
           /\ cl.pc = "done" => NothingSwallowed(cl)
           /\ cl.pc \notin {"failed", "done"} => cl.error = NoError
  /\ \A i \in 1..Len(baseHist) :
       baseHist[i].op = "setBaseData" =>
         LET text == ReadFileText(PathResolve(Cwd, baseHist[i].path))
         IN  baseHist[i].ok = ~(text = ENOENT \/ JsonParseThrows(text))
  /\ (baseOp.pc = "idle" /\ baseOp.path # "") =>
       LET text == ReadFileText(PathResolve(Cwd, baseOp.path))
       IN  IF text = ENOENT \/ JsonParseThrows(text)
             THEN /\ baseOp.error.wrapped = "Failed to load base data"
                  /\ baseOp.error.cause # ""
                  /\ baseOp.logs =
                       <<LogEntryWith("error", "Failed to load base data",
                                      [baseDataPath |-> baseOp.path])>>
             ELSE baseOp.error = NoError /\ baseOp.logs = <<>>

\* C20 witness: a batch failed at its second item, whose data file is
\* malformed; the error entry holds the four arguments.
C20_BatchFailedAtSecondItem ==
  \E c \in Slots :
    /\ call[c].kind = "generateFiles"
    /\ call[c].pc = "failed"
    /\ call[c].error = [wrapped |-> "Failed to generate files", cause |-> "SyntaxError"]
    /\ call[c].index = 1
    /\ call[c].logs[Len(call[c].logs)].data =
         [templatePath |-> "t/page.html", dataPath |-> "data/bad", outputDir |-> ".",
          namingRule |-> "{index}.html"]


\* One substitution pass of applyNamingRule over s, by token class.
NamingPass(class, s, context) ==
  CASE class = "index" -> ReplaceAll(s, "{index}", NumberToString(context.index))
    [] class = "fileName" ->
         IF context.fileName # "" THEN ReplaceAll(s, "{fileName}", context.fileName) ELSE s
    [] class = "data" -> ReplaceDataFrom(s, context.data, 1)

\* The three passes in the order given.
ExpandInOrder(order, rule, context) ==
  NamingPass(order[3], NamingPass(order[2], NamingPass(order[1], rule, context), context),
             context)

\* The orders of the three token classes.
ClassOrders ==
  {o \in [1..3 -> {"index", "fileName", "data"}] : \A a, b \in 1..3 : o[a] = o[b] => a = b}

\* C21: the token classes are independent: the file name applyNamingRule
\* returns is the one every order of the three substitutions gives, so text
\* inserted by one substitution is not expanded by a later one.
C21_TokenClassesIndependent ==
  fnOut # <<>> =>
    \A o \in ClassOrders :
      ExpandInOrder(o, fnIn.rule, [index |-> fnIn.index, data |-> fnIn.data,
                                   fileName |-> fnIn.fileName]) = fnOut[1]


\* C22: the fragment cache lives as long as the resolver that owns it.  A
\* call builds a new resolver, so for every ordinary catalog key the call has
\* resolved it has read the file itself, whatever an earlier call cached; and
\* while a resolver is in use every cache entry is the content of the file
\* the resolver's catalog names for that key.
C22_CacheLivesWithResolver ==
  \A c \in Slots :
    LET cl == call[c]
    IN  /\ \A k \in DOMAIN cl.includeFileMap \ ProtoKeys :
             ResolutionsOf(cl, k) # {} => ReadsOf(cl, cl.includeFileMap[k]) >= 1
        /\ (cl.hasIncludeIo /\ ~Finished(cl)) =>
             \A k \in DOMAIN fileContentCache :
               /\ k \in DOMAIN cl.includeFileMap
               /\ fileContentCache[k] = ReadFileText(cl.includeFileMap[k])


\* The templates whose include graph has a cycle.
CyclicTemplates == {"t/loop.html", "t/ring.html"}

\* What holds of a call at every moment, for C23.
NoCycleGuard(cl) ==
  /\ \A i \in 1..Len(cl.engineCalls) :
       ~cl.engineCalls[i].top =>
         /\ cl.engineCalls[i].key \in DOMAIN cl.includeFileMap
         /\ cl.engineCalls[i].html = ReadFileText(cl.includeFileMap[cl.engineCalls[i].key])
         /\ \/ cl.includeFileMap[cl.engineCalls[i].key] \in
                  {cl.reads[j] : j \in 1..Len(cl.reads)}
            \/ cl.engineCalls[i].key \in DOMAIN fileContentCache
  /\ cl.templatePath \in CyclicTemplates =>
       /\ cl.pc \notin {"mkdir", "write", "done", "failed"}
       /\ cl.writes = <<>>
       /\ cl.includeResults = <<>>
  /\ cl.pc = "exhausted" =>
       /\ cl.templatePath \in CyclicTemplates
       /\ Len(cl.stack) = MaxDepth
  /\ Len(cl.stack) <= MaxDepth

\* C23: include resolution has no cycle guard.  Nested includes go through
\* the same catalog and cache; when the include graph is acyclic and every
\* read and engine invocation returns, the call returns and writes its
\* output; when a fragment includes itself, directly or through another
\* fragment, no resolution ever returns, the nesting grows with every
\* include and the call ends only by exhausting the process.
C23_CyclicIncludeNeverReturns ==
  /\ [](\A c \in Slots : NoCycleGuard(call[c]))
  /\ (call[1].pc = "readTemplate" /\ call[1].templatePath = "t/chain.html")
       ~> (call[1].pc = "done" /\ Len(call[1].includeResults) = 2)
  /\ (call[1].pc = "readTemplate" /\ call[1].templatePath \in CyclicTemplates)
       ~> (call[1].pc = "exhausted")

\* C23 witness: the template includes a.html, a.html includes b.html and
\* b.html includes a.html; the engine invocations in progress alternate
\* between the two fragments until the process is exhausted.
C23_RingExhaustsProcess ==
  \E c \in Slots :
    /\ call[c].templatePath = "t/ring.html"
    /\ call[c].pc = "exhausted"
    /\ Len(call[c].stack) = MaxDepth
    /\ call[c].stack[2].key = "a.html"
    /\ call[c].stack[3].key = "b.html"
    /\ call[c].stack[4].key = "a.html"

\* The read or the parse of the setBaseData in progress fails.
SetBaseDataFails ==
  LET text == ReadFileText(PathResolve(Cwd, baseOp.path))
  IN  baseOp.pc = "reading" /\ (text = ENOENT \/ JsonParseThrows(text))

\* C24: a setBaseData whose file cannot be read or is not valid JSON leaves
\* the base data exactly as it was, the object it is held in included, and
\* the failure reaches the caller as an error that names the cause; the base
\* data is not replaced by an empty record.
C24_FailedSetBaseDataKeepsBaseData ==
  [][SetBaseDataFails /\ baseOp' # baseOp =>
       /\ baseData' = baseData
       /\ heap' = heap
       /\ baseDataRef' = baseDataRef
       /\ baseOp'.pc = "idle"
       /\ baseOp'.error # NoError
       /\ baseOp'.error.wrapped = "Failed to load base data"
       /\ baseOp'.logs[1].level = "error"]_vars

\* C24 witness: site.json was loaded, then bad.json failed to parse; the base
\* data is still that of site.json.
C24_BadJsonAfterSiteJson ==
  /\ Len(baseHist) = 2
  /\ baseHist[1] = [op |-> "setBaseData", path |-> "base/site.json", ok |-> TRUE]
  /\ baseHist[2] = [op |-> "setBaseData", path |-> "base/bad.json", ok |-> FALSE]
  /\ baseOp.error # NoError
  /\ baseOp.error.cause = "SyntaxError"
  /\ baseData = JsonParse(ReadFileText("/w/base/site.json"))
  /\ baseData # EmptyObj

\* C25: in every reachable state the base data is a record, a mapping from
\* string keys to values, also after a setBaseData whose file holds valid
\* JSON that is not an object.
C25_BaseDataIsRecord ==
  /\ baseData.t = "obj"
  /\ baseDataRef.t = "ref"

\* C26: for every catalog key, the names of built-in object properties and
\* the keys of empty fragments included, every resolution hands the engine
\* exactly the text of the file at the key's catalog location, and that file
\* was read by this call or stored in the cache by an earlier read.
C26_EngineGetsTheFileOfTheKey ==
  \A c \in Slots :
    \A i \in 1..Len(call[c].engineCalls) :
      LET e == call[c].engineCalls[i]
      IN  ~e.top =>
            /\ e.key \in DOMAIN call[c].includeFileMap
            /\ e.html = ReadFileText(call[c].includeFileMap[e.key])
            /\ \/ call[c].includeFileMap[e.key] \in
                     {call[c].reads[j] : j \in 1..Len(call[c].reads)}
               \/ e.key \in DOMAIN fileContentCache

\* The entries below a directory of the include tree, as paths.
RECURSIVE TreeEntries(_)
TreeEntries(dir) ==
  LET names == ReadDir(dir)
  IN  IF names = <<ENOENT>> THEN {}
      ELSE UNION {{PathJoin(dir, names[i])} \cup TreeEntries(PathJoin(dir, names[i])) :
                    i \in 1..Len(names)}

\* Every directory of the tree can be listed and every entry inspected.
TreeReadable(dir) ==
  /\ ReadDir(dir) # <<ENOENT>>
  /\ \A p \in TreeEntries(dir) :
       /\ Stat(p) # ENOENT
       /\ Stat(p) = "dir" => ReadDir(p) # <<ENOENT>>

TreeFiles(dir) == {p \in TreeEntries(dir) : Stat(p) = "file"}

\* C27: the catalog build is all or nothing.  A call that has a resolver has
\* the catalog of the whole include tree, every file of it under one key;
\* when a listing or an inspection fails anywhere in the tree, the call has
\* no resolver and no catalog, resolves no include and reads no fragment.
C27_CatalogAllOrNothing ==
  \A c \in Slots :
    LET cl == call[c]
    IN  /\ cl.hasIncludeIo =>
              /\ TreeReadable(includeDir)
              /\ {cl.includeFileMap[k] : k \in DOMAIN cl.includeFileMap} = TreeFiles(includeDir)
              /\ Cardinality(DOMAIN cl.includeFileMap) = Cardinality(TreeFiles(includeDir))
        /\ ~TreeReadable(includeDir) =>
              /\ ~cl.hasIncludeIo
              /\ cl.includeFileMap = <<>>
              /\ cl.includeResults = <<>>
              /\ \A i \in 1..Len(cl.engineCalls) : cl.engineCalls[i].top
              /\ \A i \in 1..Len(cl.reads) : ~AtOrBelow(includeDir, cl.reads[i])

\* C27 witness: the include tree has an entry in a subdirectory that cannot
\* be inspected, after files that could; the call went on without a
\* resolver and wrote the page with its include sites unresolved.
C27_NestedFailureDisablesIncludes ==
  \E c \in Slots :
    /\ workload = "nested"
    /\ call[c].pc = "done"
    /\ call[c].templatePath = "t/inc.html"
    /\ call[c].listed = <<includeDir>>
    /\ ~call[c].hasIncludeIo
    /\ buildIncludeFileMap(includeDir, "", <<>>).map # <<>>
    /\ ReadFileText("/w/deep/h.html") # ENOENT

\* C28: generateFiles does not require the expanded names to be distinct.
\* Every item of a batch that succeeded was written under its expanded name
\* and is listed, in order, whether or not an earlier item had the same
\* name; a file that was written twice holds the output of the later item.
C28_BatchListsEveryItem ==
  \A c \in Slots :
    LET cl == call[c]
    IN  (cl.kind = "generateFiles" /\ cl.pc = "done") =>
          /\ Len(cl.generatedFiles) = Len(cl.jsonFiles)
          /\ Len(cl.writes) = Len(cl.jsonFiles)
          /\ \A i \in 1..Len(cl.writes) :
                /\ cl.generatedFiles[i] = PathRelative(rootDir, cl.writes[i].path)
                /\ \/ \E j \in (i + 1)..Len(cl.writes) : cl.writes[j].path = cl.writes[i].path
                   \/ files[cl.writes[i].path] = cl.writes[i].content

\* C28 witness: both items of data/ok expand the rule page.html to the same
\* name; the batch succeeded, lists the path twice, and the one file on disk
\* holds the output of the second item.
C28_SameNameListedTwice ==
  \E c \in Slots :
    /\ call[c].kind = "generateFiles"
    /\ call[c].pc = "done"
    /\ call[c].namingRule = "page.html"
    /\ call[c].generatedFiles = <<"page.html", "page.html">>
    /\ call[c].writes[1].content # call[c].writes[2].content
    /\ files["/w/r/page.html"] = call[c].writes[2].content
    /\ Cardinality(DOMAIN files) < Len(call[c].generatedFiles)

\* The output path or directory of a call was rejected by the validation, or
\* lies outside the root.
OutputRejected(cl) ==
  /\ cl.kind \in {"generateFile", "generateFiles"}
  /\ \/ ~AtOrBelow(rootDir, PathResolve(rootDir, cl.outputPath))
     \/ cl.error.cause \in {"Output path must be within the output root directory",
                             "Output directory must be within the output root directory"}

\* C29: a call whose output path or output directory fails the validation
\* has failed before it read a template, a data file or a fragment, listed
\* the data or the include directory, invoked the engine, created a
\* directory or wrote a file; and the step that starts it leaves the base
\* data, the fragment cache and the file system as they were.
C29_RejectedOutputTouchesNothing ==
  /\ [](\A c \in Slots :
          LET cl == call[c]
          IN  OutputRejected(cl) =>
                /\ cl.pc = "failed"
                /\ cl.error.wrapped = MethodPrefix(cl.kind)
                /\ cl.reads = <<>>
                /\ cl.listed = <<>>
                /\ cl.jsonFiles = <<>>
                /\ cl.engineCalls = <<>>
                /\ cl.includeResults = <<>>
                /\ cl.mkdirs = <<>>
                /\ cl.writes = <<>>)
  /\ [][\A c \in Slots :
          (call'[c] # call[c] /\ OutputRejected(call'[c])) =>
            /\ baseData' = baseData
            /\ baseDataRef' = baseDataRef
            /\ heap' = heap
            /\ fileContentCache' = fileContentCache
            /\ files' = files
            /\ dirs' = dirs]_vars

\* C29 witness: after a first call wrote a page, a generateFile with the
\* output path ../x.html was rejected; it read nothing.
C29_RejectedAfterEarlierCall ==
  \E c \in Slots :
    /\ call[c].kind = "generateFile"
    /\ call[c].outputPath = "../x.html"
    /\ call[c].pc = "failed"
    /\ call[c].error.cause = "Output path must be within the output root directory"
    /\ call[c].reads = <<>>
    /\ ncalls = 2
    /\ files # <<>>

\* The text of the file a key of the include directory names.
FragmentText(key) == ReadFileText(PathJoin(includeDir, key))

\* C30: when two generation calls of one instance interleave at their
\* awaits, every entry of the fragment cache holds the text of the file of
\* its own key, a resolution of a key that no object inherits hands the
\* engine the text of that key's file, and no resolution hands the engine
\* the text of another key's file.
C30_InterleavedCallsKeepKeysApart ==
  /\ \A k \in DOMAIN fileContentCache : fileContentCache[k] = FragmentText(k)
  /\ \A c \in Slots :
       \A i \in 1..Len(call[c].engineCalls) :
         LET e == call[c].engineCalls[i]
         IN  ~e.top =>
               /\ e.key \notin ProtoKeys => e.html = FragmentText(e.key)
               /\ \A k \in DOMAIN call[c].includeFileMap :
                    (k # e.key /\ e.html = FragmentText(k)) => e.html = FragmentText(e.key)

\* C30 witness: two calls are in progress at once, each has read h.html from
\* disk, and each has handed the engine the text of h.html.
C30_FragmentReadByBothCalls ==
  /\ workload = "interleave"
  /\ \A c \in Slots :
       /\ ~Finished(call[c])
       /\ \E i \in 1..Len(call[c].reads) : call[c].reads[i] = "/w/inc/h.html"
       /\ \E i \in 1..Len(call[c].engineCalls) :
            /\ call[c].engineCalls[i].key = "h.html"
            /\ call[c].engineCalls[i].html = FragmentText("h.html")
  /\ fileContentCache["h.html"] = FragmentText("h.html")

====
